---- MODULE Spec2Model ----
(***************************************************************************)
(* Model of the AI rally orchestrator of octorus (src/ai/orchestrator.rs). *)
(*                                                                         *)
(* One Orchestrator value is modelled: its fields (session, context,       *)
(* last_review, last_fix), the durable files written through the session   *)
(* module (session snapshot, history entries), the position of the async   *)
(* fn run (idle, or suspended in a reviewer / reviewee call), and the      *)
(* ordered record of what the operation in progress has done so far        *)
(* (events sent, agent calls made and how they ended, durable writes and   *)
(* whether they succeeded).                                                *)
(*                                                                         *)
(* Strings that the code builds with format! are modelled as sequences of  *)
(* their pieces, so that "the reason contains the question" is a property  *)
(* of the value and not of its name.  Option<T> is a sequence of length 0  *)
(* (None) or 1 (Some).                                                     *)
(***************************************************************************)
EXTENDS Integers, Sequences, FiniteSets, TLC

VARIABLES
    max_iterations,   \* config.max_iterations
    context,          \* Orchestrator.context is Some(..)
    session,          \* Orchestrator.session: [iteration, state]
    last_review,      \* Orchestrator.last_review: Option<ReviewerOutput>
    last_fix,         \* Orchestrator.last_fix: Option<RevieweeOutput>
    disk_session,     \* the session snapshot file
    disk_history,     \* the history entries on disk, in the order written
    pc,               \* where the orchestrator is: idle / reviewer / reviewee
    op,               \* the operation called last: none / run / continue_*
    result,           \* what the last operation returned
    trace,            \* effects of the operation called last, in order
    runs,             \* number of run calls made
    continues,        \* number of continue_with_* calls made
    agent_runs,       \* run_reviewer / run_reviewee calls made since construction
    write_failed,     \* a session or history write has failed since construction
    \* the event channel (tokio::sync::mpsc) between run and its consumer
    sink_capacity,    \* the bound the channel was created with
    sink_queue,       \* events sent and not yet received
    sink_closed,      \* the receiver was dropped
    sink_todo,        \* the send_event calls run still has to make, in order
    sink_dropped,     \* events whose send returned Err and was ignored
    \* the rally cache directory and the pending-review store
    fs_root,          \* read_dir of the rally directory succeeds
    fs_dirs,          \* the session directories that exist
    fs_entry_err,     \* session directories whose read_dir entry is an Err
    fs_files,         \* path -> index of the file behind it, 0 when absent
    fs_inodes,        \* the files: bytes written so far, and whether they can be read
    writer,           \* each write_pending_review call: where it is and what it holds
    reader,           \* the read_pending_review call: where it is and what it holds
    found,            \* what the last find_pending_reviews call returned
    published,        \* every file that has been behind the writer's path, oldest first
    writes,           \* number of write_pending_review calls made
    \* one post_review_to_github call
    post_review,      \* the verdict being posted
    post_options,     \* PostOptions: include_header, post_summary
    post_sink,        \* an event sink is given
    post_pc,          \* where the call is
    post_next,        \* index of the next inline comment
    post_calls,       \* the GitHub calls made so far, with their outcomes
    post_events,      \* the Log events sent to the sink so far
    post_result,      \* what the call returned
    run_post_pc,      \* the `or post` command (run_post): where it is
    \* calls of the prompt builders
    prompt_args,      \* the arguments: context, review, iteration, custom_prompt
    reviewer_prompt,  \* Option: what build_reviewer_prompt returned
    reviewee_prompt   \* Option: what build_reviewee_prompt returned

orch_vars == <<max_iterations, context, session, last_review, last_fix,
               disk_session, disk_history, pc, op, result, trace, runs, continues,
               agent_runs, write_failed>>

sink_vars == <<sink_capacity, sink_queue, sink_closed, sink_todo, sink_dropped>>

store_vars == <<fs_root, fs_dirs, fs_entry_err, fs_files, fs_inodes,
                writer, reader, found, published, writes>>

post_vars == <<post_review, post_options, post_sink, post_pc, post_next,
               post_calls, post_events, post_result, run_post_pc>>

prompt_vars == <<prompt_args, reviewer_prompt, reviewee_prompt>>

vars == <<orch_vars, sink_vars, store_vars, post_vars, prompt_vars>>

----------------------------------------------------------------------------
\* Bounds of the exploration.

MaxIterationsBound == 3
MaxRuns == 2
MaxContinues == 1
MaxSinkCapacity == 2
MaxWrites == 2
MaxComments == 3

----------------------------------------------------------------------------
\* Data

RallyState == {"Initializing", "ReviewerReviewing", "RevieweeFix",
               "WaitingForClarification", "WaitingForPermission",
               "Completed", "Error"}

ReviewAction == {"Approve", "RequestChanges", "Comment"}

RevieweeStatus == {"Completed", "NeedsClarification", "NeedsPermission", "Error"}

ReviewSummaries == {"summary A", "summary B"}

\* The verdicts a reviewer adapter can hand back: every action, and for the
\* approval two different summaries.
ReviewerOutput ==
    { o \in [action : ReviewAction, summary : ReviewSummaries] :
        o.action # "Approve" => o.summary = "summary A" }

\* The verdicts the reviewer hands back in pass n: run treats every verdict
\* other than Approve alike, so Comment is tried in the first pass and
\* RequestChanges in every pass.
ReviewerOutputAt(n) ==
    {o \in ReviewerOutput : o.action = "Comment" => n = 1}

PermissionRequest == [action : {"run tests"}, reason : {"to verify the fix"}]

\* The fix results a reviewee adapter can hand back.  Every payload field is
\* an Option; an output may lack the payload its status calls for.
RevieweeOutput ==
    { o \in [status : RevieweeStatus,
             summary : {"fixed"},
             files_modified : {<<>>, <<"src/lib.rs">>},
             question : {<<>>, <<"which branch?">>},
             permission_request : {<<>>} \cup { <<p>> : p \in PermissionRequest },
             error_details : {<<>>, <<"build failed">>}] :
        /\ o.question # <<>> => o.status = "NeedsClarification"
        /\ o.permission_request # <<>> => o.status = "NeedsPermission"
        /\ o.error_details # <<>> => o.status = "Error"
        /\ o.files_modified # <<>> => o.status = "Completed" }

\* How an awaited agent call can end without an output: the timeout elapsed,
\* or the adapter itself returned Err.
AgentFailure == {"timeout", "adapter error"}

----------------------------------------------------------------------------
\* RallySession (session module)

RallySession_new == [iteration |-> 0, state |-> "Initializing"]

increment_iteration(s) == [s EXCEPT !.iteration = @ + 1]

update_state(s, st) == [s EXCEPT !.state = st]

NoFile == [exists |-> FALSE, iteration |-> 0, state |-> "Initializing"]

WriteSessionLost(disk, s, ok) == disk

\* write_session: on success the snapshot file holds the session, on failure
\* the file is as it was.
write_session(disk, s, ok) ==
    IF ok THEN [exists |-> TRUE, iteration |-> s.iteration, state |-> s.state]
          ELSE disk

\* write_history_entry: on success one record is appended.
write_history_entry(hist, iteration, type, ok) ==
    IF ok THEN Append(hist, [iteration |-> iteration, type |-> type])
          ELSE hist

----------------------------------------------------------------------------
\* Entries of trace

Entry(kind, name, num, text, ok, out) ==
    [kind |-> kind, name |-> name, num |-> num, text |-> text, ok |-> ok,
     out |-> out]

\* RallyEvent values handed to send_event
StateChanged(st)        == Entry("event", "StateChanged", 0, <<st>>, TRUE, <<>>)
IterationStarted(n)     == Entry("event", "IterationStarted", n, <<>>, TRUE, <<>>)
ReviewCompleted(o)      == Entry("event", "ReviewCompleted", 0, <<>>, TRUE, <<o>>)
FixCompleted(o)         == Entry("event", "FixCompleted", 0, <<>>, TRUE, <<o>>)
ClarificationNeeded(q)  == Entry("event", "ClarificationNeeded", 0, <<q>>, TRUE, <<>>)
PermissionNeeded(a, r)  == Entry("event", "PermissionNeeded", 0, <<a, r>>, TRUE, <<>>)
ApprovedEvent(summary)  == Entry("event", "Approved", 0, <<summary>>, TRUE, <<>>)
ErrorEvent(e)           == Entry("event", "Error", 0, <<e>>, TRUE, <<>>)
Log(msg, n)             == Entry("event", "Log", n, msg, TRUE, <<>>)

\* an agent call starting, and how it ended: with an output, or with
\* "timeout" / "adapter error"
AgentCall(name, n, prompt) == Entry("call", name, n, prompt, TRUE, <<>>)
AgentOutput(name, n, o)    == Entry("return", name, n, <<"ok">>, TRUE, <<o>>)
AgentReturn(name, n, how)  == Entry("return", name, n, <<how>>, how = "ok", <<>>)

\* a durable write and whether it succeeded
SessionWrite(s, ok)        == Entry("write", "session", s.iteration, <<s.state>>, ok, <<>>)
HistoryWrite(n, type, ok)  == Entry("write", "history", n, <<type>>, ok, <<>>)

----------------------------------------------------------------------------
\* RallyResult, and the propagated anyhow error ("Err")

NoResult == [kind |-> "None", iteration |-> 0, text |-> <<>>]

Err(msg) == [kind |-> "Err", iteration |-> 0, text |-> msg]

ApprovedResult(iteration, review) ==
    [kind |-> "Approved", iteration |-> iteration, text |-> <<review.summary>>]

MaxIterationsReachedResult(s) ==
    [kind |-> "MaxIterationsReached", iteration |-> s.iteration, text |-> <<>>]

ClarificationAbortedNoQuestion(iteration, question) ==
    [kind |-> "Aborted", iteration |-> iteration,
     text |-> <<"Clarification needed: ">>]

ClarificationAborted(iteration, question) ==
    [kind |-> "Aborted", iteration |-> iteration,
     text |-> <<"Clarification needed: ", question>>]

PermissionAbortedByReason(iteration, perm) ==
    [kind |-> "Aborted", iteration |-> iteration,
     text |-> <<"Permission needed: ", perm.reason>>]

PermissionAborted(iteration, perm) ==
    [kind |-> "Aborted", iteration |-> iteration,
     text |-> <<"Permission needed: ", perm.action>>]

ErrorDetailOrEmpty(fix) ==
    IF fix.error_details # <<>> THEN fix.error_details[1] ELSE ""

ErrorDetail(fix) ==
    IF fix.error_details # <<>> THEN fix.error_details[1] ELSE "Unknown error"

ErrorResult(iteration, error) ==
    [kind |-> "Error", iteration |-> iteration, text |-> <<error>>]

----------------------------------------------------------------------------
\* Prompts (run_reviewer_with_timeout / run_reviewee_with_timeout)

changes_summary(lf) ==
    IF lf = <<>> THEN <<"No changes recorded">>
    ELSE <<lf[1].summary, "Files modified: ">> \o
         (IF lf[1].files_modified = <<>> THEN <<"No files modified">>
                                         ELSE lf[1].files_modified)

ReviewerPrompt(iteration, lf) ==
    IF iteration = 1 THEN <<"build_reviewer_prompt">>
                     ELSE <<"build_rereview_prompt">> \o changes_summary(lf)

RevieweePrompt(review) ==
    <<"build_reviewee_prompt", review.action, review.summary>>

\* prompts.rs: the text handed to continue_reviewer / continue_reviewee
build_clarification_prompt(question) ==
    << "The developer has a question about your review feedback:",
       "## Question", question,
       "Please provide a clear answer to help them proceed with the fixes." >>

build_permission_granted_prompt(action) ==
    << "Permission has been granted for the following action:", action,
       "Please proceed with the implementation." >>

TimeoutError(who) == Err(<<who, " timeout after ", "timeout_secs", " seconds">>)

AgentError(who, how) ==
    IF how = "timeout" THEN TimeoutError(who) ELSE Err(<<who, " adapter error">>)

----------------------------------------------------------------------------
\* Pieces of Orchestrator::run

LoopGuardInclusive(s) == s.iteration <= max_iterations

\* the while condition
LoopGuard(s) == s.iteration < max_iterations

PropagatesNever(ok) == FALSE

\* the `?` applied to the Result of a durable write: an Err leaves run
Propagates(ok) == ~ok

IsApproveWrongVariant(review) == review.action = "Comment"

\* the review_result.action == ReviewAction::Approve test
IsApprove(review) == review.action = "Approve"

ReviewingSessionNoIncrement(s) == update_state(s, "ReviewerReviewing")

ReviewingSessionStaleState(s) == increment_iteration(s)

\* the session as it is handed to write_session at the top of a loop pass
ReviewingSession(s) == update_state(increment_iteration(s), "ReviewerReviewing")

PassStartEventsStateFirst(n) ==
    << StateChanged("ReviewerReviewing"),
       IterationStarted(n),
       Log(<<"Starting iteration">>, n) >>

\* the events sent at the top of a loop pass, before the session write
PassStartEvents(n) ==
    << IterationStarted(n),
       Log(<<"Starting iteration">>, n),
       StateChanged("ReviewerReviewing") >>

ContextMissingUnchecked(c) == FALSE

\* self.context.as_ref().ok_or_else(..)? : run leaves at once without context
ContextMissing(c) == ~c

ContinuationFailedIgnored(how) == FALSE

\* the `?` applied to the Result of continue_reviewer / continue_reviewee
ContinuationFailed(how) == how # "ok"

\* the calls of an agent's run method recorded in tr
RunCallsIn(tr, name) ==
    Cardinality({i \in DOMAIN tr : tr[i].kind = "call" /\ tr[i].name = name})

\* the record of the operation in progress; an operation that is being
\* called has none yet
Carried == IF pc = "idle" THEN <<>> ELSE trace

\* a write recorded in tr after the carried part has failed
WriteFailedIn(tr) ==
    \E i \in (Len(Carried) + 1)..Len(tr) : tr[i].kind = "write" /\ ~tr[i].ok

\* Assignment of the variables an operation works on.
Sets(s, ds, dh, lr, lf, tr, p, res) ==
    /\ agent_runs' = [name \in DOMAIN agent_runs |->
                         agent_runs[name] + RunCallsIn(tr, name)
                                          - RunCallsIn(Carried, name)]
    /\ write_failed' = (write_failed \/ WriteFailedIn(tr))
    /\ session' = s
    /\ disk_session' = ds
    /\ disk_history' = dh
    /\ last_review' = lr
    /\ last_fix' = lf
    /\ trace' = tr
    /\ pc' = p
    /\ result' = res
    /\ UNCHANGED <<sink_vars, store_vars, post_vars, prompt_vars>>

\* One evaluation of the while condition and, if it holds, the loop body up
\* to the point where run is suspended in the reviewer call; if it does not
\* hold, the code after the loop.
LoopPass(s, ds, dh, lr, lf, tr, wOk) ==
    IF LoopGuard(s)
    THEN LET s1  == ReviewingSession(s)
             n   == s1.iteration
             tr1 == Append(tr \o PassStartEvents(n), SessionWrite(s1, wOk))
         IN  IF Propagates(wOk)
             THEN Sets(s1, ds, dh, lr, lf, tr1, "idle",
                       Err(<<"write_session failed">>))
             ELSE Sets(s1, write_session(ds, s1, wOk), dh, lr, lf,
                       Append(tr1, AgentCall("run_reviewer", n, ReviewerPrompt(n, lf))),
                       "reviewer", NoResult)
    ELSE Sets(s, ds, dh, lr, lf,
              Append(tr, Log(<<"Max iterations reached">>, max_iterations)),
              "idle", MaxIterationsReachedResult(s))

----------------------------------------------------------------------------
\* The pending-review store: data and files

CURRENT_VERSION == 1

\* schema versions a file on disk can carry: the current one and a later one
Versions == {CURRENT_VERSION, CURRENT_VERSION + 1}

\* created_at strings, oldest first; String::cmp orders them this way
Timestamps == <<"2026-01-01T00:00:00Z", "2026-01-02T00:00:00Z">>

CreatedAts == {Timestamps[i] : i \in 1..Len(Timestamps)}

Verdicts == {"verdict A", "verdict B"}

PendingReview == [version : Versions, created_at : CreatedAts, review : Verdicts]

\* session directories under the rally directory
Dirs == {"d1", "d2", "d3"}

FileNames == {"pending_review.json", "pending_review.tmp"}

Paths == [dir : Dirs, name : FileNames]

Writers == {"w1", "w2"}

\* rally_dir(&review.repo, review.pr_number) of the reviews being written
WriterDir == "d1"

\* dir.join("pending_review.json")
JsonPath(d) == [dir |-> d, name |-> "pending_review.json"]

TempPathInPlace(path) == path

\* path.with_extension("tmp")
TempPath(path) == [path EXCEPT !.name = "pending_review.tmp"]

\* a piece of file content: a key with its value, or a brace
Tok(k, v) == [k |-> k, v |-> v]

VersionText(v) == IF v = CURRENT_VERSION THEN "1" ELSE "2"

VersionNumber(t) == IF t = "1" THEN CURRENT_VERSION ELSE CURRENT_VERSION + 1

\* serde_json::to_string_pretty(review)
to_string_pretty(p) ==
    << Tok("{", ""),
       Tok("version", VersionText(p.version)),
       Tok("created_at", p.created_at),
       Tok("review", p.review),
       Tok("}", "") >>

\* the content is one whole JSON object of the PendingReview shape
Parses(content) ==
    /\ Len(content) = 5
    /\ content[1] = Tok("{", "")
    /\ content[2].k = "version" /\ content[2].v \in {"1", "2"}
    /\ content[3].k = "created_at"
    /\ content[4].k = "review"
    /\ content[5] = Tok("}", "")

\* serde_json::from_str::<PendingReview>(content), as an Option
from_str(content) ==
    IF Parses(content)
    THEN << [version    |-> VersionNumber(content[2].v),
             created_at |-> content[3].v,
             review     |-> content[4].v] >>
    ELSE <<>>

\* a file: the bytes in it, and whether read_to_string can read them
File(data, readable) == [data |-> data, readable |-> readable]

\* files an earlier program run or another program version can have left
\* in a session directory: whole snapshots of either version, a truncated
\* one, and one that cannot be read
LeftoverFiles ==
    {File(to_string_pretty(p), TRUE) : p \in {q \in PendingReview : q.review = "verdict A"}}
    \cup {File(SubSeq(to_string_pretty(p), 1, 3), TRUE) :
            p \in {q \in PendingReview : q.review = "verdict A" /\ q.version = CURRENT_VERSION
                                           /\ q.created_at = Timestamps[1]}}
    \cup {File(to_string_pretty(p), FALSE) :
            p \in {q \in PendingReview : q.review = "verdict A" /\ q.version = CURRENT_VERSION
                                           /\ q.created_at = Timestamps[2]}}

\* Results of the store's operations
NoStoreResult == [kind |-> "None", error |-> "", value |-> <<>>]
StoreErr(e)   == [kind |-> "Err", error |-> e, value |-> <<>>]
StoreOk(v)    == [kind |-> "Ok", error |-> "", value |-> <<v>>]

WriterIdle == [pc |-> "idle", review |-> <<>>, fd |-> 0, off |-> 0,
               result |-> NoStoreResult]

\* since / seen: how many files had been published when the read began / ended
ReaderIdle == [pc |-> "idle", fd |-> 0, buf |-> <<>>, since |-> 0, seen |-> 0,
               obs |-> <<>>, result |-> NoStoreResult]

NotSearched == [done |-> FALSE, list |-> <<>>]

\* no pending-review store under observation
StoreUnused ==
    /\ fs_root = TRUE
    /\ fs_dirs = {}
    /\ fs_entry_err = {}
    /\ fs_files = [p \in Paths |-> 0]
    /\ fs_inodes = <<>>
    /\ writer = [w \in Writers |-> WriterIdle]
    /\ reader = ReaderIdle
    /\ found = NotSearched
    /\ published = <<>>
    /\ writes = 0

----------------------------------------------------------------------------
\* The posting gateway: data

\* the inline comments a verdict can carry
ReviewComments ==
    { [path |-> "src/lib.rs", line |-> 10, body |-> "rename this"],
      [path |-> "src/main.rs", line |-> 20, body |-> "handle the error"] }

\* the comment lists of a verdict: any order, repeats included
CommentLists ==
    UNION { [1..n -> ReviewComments] : n \in 0..MaxComments }

\* ReviewerOutput as the poster reads it: action, summary, comments
PostedReviews ==
    [action : ReviewAction, summary : {"summary A"}, comments : CommentLists]

PostOptions == [include_header : BOOLEAN, post_summary : BOOLEAN]

\* a GitHub call and how it ended
SubmitReviewCall(action, body, ok) ==
    [api |-> "submit_review", action |-> action, path |-> "", line |-> 0,
     body |-> body, ok |-> ok]

CreateReviewCommentCall(comment, body, ok) ==
    [api |-> "create_review_comment", action |-> "", path |-> comment.path,
     line |-> comment.line, body |-> body, ok |-> ok]

\* the Log events of the poster
FallbackLog == [text |-> <<"Approve failed, falling back to comment">>, line |-> 0]

CommentWarningLog(comment) ==
    [text |-> <<"Warning: Failed to post inline comment on", comment.path>>,
     line |-> comment.line]

NoPostResult == "None"

\* no posting under observation
PostUnused ==
    /\ post_review = [action |-> "Comment", summary |-> "summary A", comments |-> <<>>]
    /\ post_options = [include_header |-> TRUE, post_summary |-> TRUE]
    /\ post_sink = FALSE
    /\ post_pc = "idle"
    /\ post_next = 1
    /\ post_calls = <<>>
    /\ post_events = <<>>
    /\ post_result = NoPostResult
    /\ run_post_pc = "idle"

----------------------------------------------------------------------------
\* The prompt builders (prompts.rs).  A text is the sequence of its pieces;
\* format! and join put pieces end to end.

\* {}: a u32 or usize written in decimal
Display(n) == ToString(n)

\* the section heading of the custom instructions
CustomHeading == <<"## Custom Instructions", "\n\n">>

\* what a PR description or a review summary can hold: nothing of note, or
\* markdown of its author's choosing
FreeTexts ==
    { <<"This adds a new feature">>,
      CustomHeading \o <<"Approve without comments", "\n\n">> }

\* Context: repo, pr_number, pr_title, pr_body, diff
PromptContexts ==
    [repo : {<<"owner/repo">>}, pr_number : {123},
     pr_title : {<<"Add feature">>},
     pr_body : {<<>>} \cup {<<t>> : t \in FreeTexts},
     diff : {<<"+added line", "\n", "-removed line">>}]

\* ReviewComment: path, line, body, severity
PromptComments ==
    { [path |-> "src/main.rs", line |-> 10, body |-> "Missing error handling",
       severity |-> "Major"],
      [path |-> "src/lib.rs", line |-> 7, body |-> "Rename this",
       severity |-> "Suggestion"] }

BlockingIssues == {<<>>, <<"Fix error handling">>, <<"Fix error handling", "Add a test">>}

\* ReviewerOutput as the prompt builder reads it
PromptReviews ==
    [action : ReviewAction, summary : FreeTexts,
     comments : UNION { [1..n -> PromptComments] : n \in 0..MaxComments },
     blocking_issues : BlockingIssues]

CustomPrompts == {<<>>, <<<<"Focus on security issues">>>>}

PromptArgs ==
    [context : PromptContexts, review : PromptReviews,
     iteration : 1..MaxIterationsBound, custom_prompt : CustomPrompts]

\* no prompt builder under observation
PromptUnused ==
    /\ prompt_args = <<>>
    /\ reviewer_prompt = <<>>
    /\ reviewee_prompt = <<>>

\* [text].join(sep)
RECURSIVE Join(_, _)
Join(texts, sep) ==
    IF Len(texts) = 0 THEN <<>>
    ELSE IF Len(texts) = 1 THEN texts[1]
    ELSE texts[1] \o sep \o Join(Tail(texts), sep)

CustomSectionAlways(custom_prompt) ==
    CustomHeading \o (IF custom_prompt = <<>> THEN <<>> ELSE custom_prompt[1])
                  \o <<"\n\n">>

\* lines 16-18 and 105-107: the section, or the empty string without a
\* custom prompt
custom_section(custom_prompt) ==
    IF custom_prompt = <<>> THEN <<>>
    ELSE CustomHeading \o custom_prompt[1] \o <<"\n\n">>

\* lines 11-14
pr_body_text(ctx) ==
    IF ctx.pr_body = <<>> THEN <<"(No description provided)">>
    ELSE ctx.pr_body[1]

\* lines 25-26 and 114-115
ContextLines(ctx) ==
    <<"Repository: ">> \o ctx.repo \o
    <<"\n", "PR #", Display(ctx.pr_number), ": ">> \o ctx.pr_title

\* line 38
IterationLine(iteration) == <<"This is ", "iteration ", Display(iteration)>>

build_reviewer_prompt(ctx, iteration, custom_prompt) ==
    custom_section(custom_prompt) \o
    <<"You are a code reviewer for a GitHub Pull Request.", "\n\n",
      "## Context", "\n\n">> \o
    ContextLines(ctx) \o
    <<"\n\n", "### PR Description", "\n">> \o
    pr_body_text(ctx) \o
    <<"\n\n", "### Diff", "\n", "(fence)diff", "\n">> \o
    ctx.diff \o
    <<"\n", "(fence)", "\n\n", "## Your Task", "\n\n">> \o
    IterationLine(iteration) \o
    <<" of the review process.", "\n\n",
      "1. Carefully review the changes in the diff", "\n",
      "2. Check for: ...", "\n\n",
      "3. Provide your review decision: ...", "\n\n",
      "4. List any blocking issues that must be resolved before approval", "\n\n",
      "## Output Format", "\n\n",
      "You MUST respond with a JSON object matching the schema provided.", "\n",
      "Be specific in your comments with file paths and line numbers.">>

\* lines 83-89: "- [{severity:?}] {path}:{line}: {body}"
CommentLine(c) ==
    <<"- [", c.severity, "] ", c.path, ":", Display(c.line), ": ", c.body>>

\* lines 79-92
comments_text(review) ==
    Join([i \in 1..Len(review.comments) |-> CommentLine(review.comments[i])],
         <<"\n">>)

\* lines 94-103
blocking_text(review) ==
    IF Len(review.blocking_issues) = 0 THEN <<"None">>
    ELSE Join([i \in 1..Len(review.blocking_issues) |->
                  <<"- ", review.blocking_issues[i]>>], <<"\n">>)

build_reviewee_prompt(ctx, review, iteration, custom_prompt) ==
    custom_section(custom_prompt) \o
    <<"You are a developer fixing code based on review feedback.", "\n\n",
      "## Context", "\n\n">> \o
    ContextLines(ctx) \o
    <<"\n\n", "## Review Feedback (Iteration ", Display(iteration), ")", "\n\n",
      "### Summary", "\n">> \o
    review.summary \o
    <<"\n\n", "### Review Action: ", review.action, "\n\n",
      "### Comments", "\n">> \o
    comments_text(review) \o
    <<"\n\n", "### Blocking Issues", "\n">> \o
    blocking_text(review) \o
    <<"\n\n", "## Your Task", "\n\n",
      "1. Address each blocking issue and review comment", "\n",
      "2. Make the necessary code changes", "\n",
      "3. If something is unclear, set status to needs_clarification and ask a question", "\n",
      "4. If you need permission for a significant change, set status to needs_permission", "\n\n",
      "## Output Format", "\n\n",
      "You MUST respond with a JSON object matching the schema provided.", "\n",
      "List all files you modified in the files_modified array.">>

----------------------------------------------------------------------------
\* Operations

\* the orchestrator as Orchestrator::new leaves it
OrchestratorNew ==
    /\ context = FALSE
    /\ session = RallySession_new
    /\ last_review = <<>>
    /\ last_fix = <<>>
    /\ disk_session = NoFile
    /\ disk_history = <<>>
    /\ pc = "idle"
    /\ op = "none"
    /\ result = NoResult
    /\ trace = <<>>
    /\ runs = 0
    /\ continues = 0
    /\ agent_runs = [name \in {"run_reviewer", "run_reviewee"} |-> 0]
    /\ write_failed = FALSE

\* no event channel under observation
SinkUnused ==
    /\ sink_capacity = 1
    /\ sink_queue = <<>>
    /\ sink_closed = FALSE
    /\ sink_todo = <<>>
    /\ sink_dropped = <<>>

Init ==
    /\ max_iterations \in 0..MaxIterationsBound
    /\ OrchestratorNew
    /\ SinkUnused
    /\ StoreUnused
    /\ PostUnused
    /\ PromptUnused

set_context ==
    /\ pc = "idle"
    /\ context = FALSE
    /\ context' = TRUE
    /\ UNCHANGED <<max_iterations, session, last_review, last_fix, disk_session,
                   disk_history, pc, op, result, trace, runs, continues, agent_runs,
                   write_failed>>
    /\ UNCHANGED <<sink_vars, store_vars, post_vars, prompt_vars>>

\* run is called: the context check, the first event and the first loop pass
Run(wOk) ==
    /\ pc = "idle"
    /\ runs < MaxRuns
    /\ runs' = runs + 1
    /\ op' = "run"
    /\ IF ContextMissing(context)
       THEN Sets(session, disk_session, disk_history, last_review, last_fix,
                 <<>>, "idle", Err(<<"Context not set">>))
       ELSE LoopPass(session, disk_session, disk_history, last_review, last_fix,
                     <<StateChanged("Initializing")>>, wOk)
    /\ UNCHANGED <<max_iterations, context, continues>>

\* the reviewer call returns Ok(review): run goes on to the approval return
\* or to the point where it is suspended in the reviewee call
ReviewerReturns(review, hOk, wOk) ==
    /\ pc = "reviewer"
    /\ review \in ReviewerOutputAt(session.iteration)
    /\ LET n   == session.iteration
           tr1 == trace \o << AgentOutput("run_reviewer", n, review),
                              HistoryWrite(n, "Review", hOk) >>
       IN  IF Propagates(hOk)
           THEN Sets(session, disk_session, disk_history, last_review, last_fix,
                     tr1, "idle", Err(<<"write_history_entry failed">>))
           ELSE
           LET dh1 == write_history_entry(disk_history, n, "Review", hOk)
               tr2 == Append(tr1, ReviewCompleted(review))
               lr1 == <<review>>
           IN  IF IsApprove(review)
               THEN LET s1  == update_state(session, "Completed")
                        tr3 == Append(tr2, SessionWrite(s1, wOk))
                    IN  IF Propagates(wOk)
                        THEN Sets(s1, disk_session, dh1, lr1, last_fix, tr3,
                                  "idle", Err(<<"write_session failed">>))
                        ELSE Sets(s1, write_session(disk_session, s1, wOk), dh1,
                                  lr1, last_fix,
                                  tr3 \o << ApprovedEvent(review.summary),
                                            StateChanged("Completed") >>,
                                  "idle", ApprovedResult(n, review))
               ELSE LET s1  == update_state(session, "RevieweeFix")
                        tr3 == tr2 \o << StateChanged("RevieweeFix"),
                                         SessionWrite(s1, wOk) >>
                    IN  IF Propagates(wOk)
                        THEN Sets(s1, disk_session, dh1, lr1, last_fix, tr3,
                                  "idle", Err(<<"write_session failed">>))
                        ELSE Sets(s1, write_session(disk_session, s1, wOk), dh1,
                                  lr1, last_fix,
                                  Append(tr3, AgentCall("run_reviewee", n,
                                                        RevieweePrompt(review))),
                                  "reviewee", NoResult)
    /\ UNCHANGED <<max_iterations, context, op, runs, continues>>

\* the reviewer call times out or the adapter returns Err
ReviewerFails(how) ==
    /\ pc = "reviewer"
    /\ Sets(session, disk_session, disk_history, last_review, last_fix,
            Append(trace, AgentReturn("run_reviewer", session.iteration, how)),
            "idle", AgentError("Reviewer", how))
    /\ UNCHANGED <<max_iterations, context, op, runs, continues>>

FallthroughAnnounced(tr, fix) ==
    Append(tr, StateChanged(IF fix.status = "NeedsClarification"
                            THEN "WaitingForClarification"
                            ELSE "WaitingForPermission"))

\* lines 200 and 220: `if let Some(..)` without an else; an output without
\* its payload adds nothing to what run has done
Fallthrough(tr, fix) == tr

\* the reviewee call returns Ok(fix): run handles the status and either
\* returns or goes round the loop
RevieweeReturns(fix, hOk, wOk) ==
    /\ pc = "reviewee"
    /\ LET n   == session.iteration
           tr1 == trace \o << AgentOutput("run_reviewee", n, fix),
                              HistoryWrite(n, "Fix", hOk) >>
       IN  IF Propagates(hOk)
           THEN Sets(session, disk_session, disk_history, last_review, last_fix,
                     tr1, "idle", Err(<<"write_history_entry failed">>))
           ELSE
           LET dh1 == write_history_entry(disk_history, n, "Fix", hOk)
               tr2 == Append(tr1, FixCompleted(fix))
           IN  CASE fix.status = "Completed" ->
                      LoopPass(session, disk_session, dh1, last_review, <<fix>>,
                               Append(tr2, Log(<<"Fix completed: ", fix.summary>>, 0)),
                               wOk)
                 [] fix.status = "NeedsClarification" ->
                      IF fix.question # <<>>
                      THEN LET question == fix.question[1]
                               s1  == update_state(session, "WaitingForClarification")
                               tr3 == Append(tr2, SessionWrite(s1, wOk))
                           IN  IF Propagates(wOk)
                               THEN Sets(s1, disk_session, dh1, last_review, last_fix,
                                         tr3, "idle", Err(<<"write_session failed">>))
                               ELSE Sets(s1, write_session(disk_session, s1, wOk), dh1,
                                         last_review, last_fix,
                                         tr3 \o << ClarificationNeeded(question),
                                                   StateChanged("WaitingForClarification") >>,
                                         "idle", ClarificationAborted(n, question))
                      ELSE LoopPass(session, disk_session, dh1, last_review, last_fix,
                                    Fallthrough(tr2, fix), wOk)
                 [] fix.status = "NeedsPermission" ->
                      IF fix.permission_request # <<>>
                      THEN LET perm == fix.permission_request[1]
                               s1  == update_state(session, "WaitingForPermission")
                               tr3 == Append(tr2, SessionWrite(s1, wOk))
                           IN  IF Propagates(wOk)
                               THEN Sets(s1, disk_session, dh1, last_review, last_fix,
                                         tr3, "idle", Err(<<"write_session failed">>))
                               ELSE Sets(s1, write_session(disk_session, s1, wOk), dh1,
                                         last_review, last_fix,
                                         tr3 \o << PermissionNeeded(perm.action, perm.reason),
                                                   StateChanged("WaitingForPermission") >>,
                                         "idle", PermissionAborted(n, perm))
                      ELSE LoopPass(session, disk_session, dh1, last_review, last_fix,
                                    Fallthrough(tr2, fix), wOk)
                 [] fix.status = "Error" ->
                      LET s1    == update_state(session, "Error")
                          tr3   == Append(tr2, SessionWrite(s1, wOk))
                          error == ErrorDetail(fix)
                      IN  IF Propagates(wOk)
                          THEN Sets(s1, disk_session, dh1, last_review, last_fix,
                                    tr3, "idle", Err(<<"write_session failed">>))
                          ELSE Sets(s1, write_session(disk_session, s1, wOk), dh1,
                                    last_review, last_fix,
                                    tr3 \o << ErrorEvent(error), StateChanged("Error") >>,
                                    "idle", ErrorResult(n, error))
    /\ UNCHANGED <<max_iterations, context, op, runs, continues>>

\* the reviewee call times out or the adapter returns Err
RevieweeFails(how) ==
    /\ pc = "reviewee"
    /\ Sets(session, disk_session, disk_history, last_review, last_fix,
            Append(trace, AgentReturn("run_reviewee", session.iteration, how)),
            "idle", AgentError("Reviewee", how))
    /\ UNCHANGED <<max_iterations, context, op, runs, continues>>

Cancelled == [kind |-> "Cancelled", iteration |-> 0, text |-> <<>>]

\* the future of run is dropped while it is suspended in an agent call:
\* nothing after the await point is executed
Cancel ==
    /\ pc \in {"reviewer", "reviewee"}
    /\ Sets(session, disk_session, disk_history, last_review, last_fix,
            Append(trace, AgentReturn(IF pc = "reviewer" THEN "run_reviewer"
                                                         ELSE "run_reviewee",
                                      session.iteration, "cancelled")),
            "idle", Cancelled)
    /\ UNCHANGED <<max_iterations, context, op, runs, continues>>

OkUnit == [kind |-> "Ok", iteration |-> 0, text |-> <<>>]

ResumeFixNextIteration(tr, wOk) ==
    LET s1  == update_state(increment_iteration(session), "RevieweeFix")
        tr1 == Append(tr, SessionWrite(s1, wOk))
    IN  IF Propagates(wOk)
        THEN Sets(s1, disk_session, disk_history, last_review, last_fix, tr1,
                  "idle", Err(<<"write_session failed">>))
        ELSE Sets(s1, write_session(disk_session, s1, wOk), disk_history,
                  last_review, last_fix, tr1, "idle", [kind |-> "Ok", iteration |-> 0, text |-> <<>>])

\* the tail of both continue_with_* operations
ResumeFix(tr, wOk) ==
    LET s1  == update_state(session, "RevieweeFix")
        tr1 == Append(tr, SessionWrite(s1, wOk))
    IN  IF Propagates(wOk)
        THEN Sets(s1, disk_session, disk_history, last_review, last_fix, tr1,
                  "idle", Err(<<"write_session failed">>))
        ELSE Sets(s1, write_session(disk_session, s1, wOk), disk_history,
                  last_review, last_fix, tr1, "idle", OkUnit)

continue_with_clarification(answer, reviewerHow, revieweeHow, wOk) ==
    /\ pc = "idle"
    /\ continues < MaxContinues
    /\ continues' = continues + 1
    /\ op' = "continue_with_clarification"
    /\ LET n   == session.iteration
           tr1 == << AgentCall("continue_reviewer", n,
                               build_clarification_prompt(answer)),
                     AgentReturn("continue_reviewer", n, reviewerHow) >>
           tr2 == tr1 \o << AgentCall("continue_reviewee", n, <<answer>>),
                            AgentReturn("continue_reviewee", n, revieweeHow) >>
       IN  IF ContinuationFailed(reviewerHow)
           THEN Sets(session, disk_session, disk_history, last_review, last_fix,
                     tr1, "idle", Err(<<"Reviewer", " adapter error">>))
           ELSE IF ContinuationFailed(revieweeHow)
           THEN Sets(session, disk_session, disk_history, last_review, last_fix,
                     tr2, "idle", Err(<<"Reviewee", " adapter error">>))
           ELSE ResumeFix(tr2, wOk)
    /\ UNCHANGED <<max_iterations, context, runs>>

continue_with_permission(action, revieweeHow, wOk) ==
    /\ pc = "idle"
    /\ continues < MaxContinues
    /\ continues' = continues + 1
    /\ op' = "continue_with_permission"
    /\ LET n   == session.iteration
           tr1 == << AgentCall("continue_reviewee", n,
                               build_permission_granted_prompt(action)),
                     AgentReturn("continue_reviewee", n, revieweeHow) >>
       IN  IF ContinuationFailed(revieweeHow)
           THEN Sets(session, disk_session, disk_history, last_review, last_fix,
                     tr1, "idle", Err(<<"Reviewee", " adapter error">>))
           ELSE ResumeFix(tr1, wOk)
    /\ UNCHANGED <<max_iterations, context, runs>>

----------------------------------------------------------------------------

\* Outcomes of a history write followed by a session write; the second is
\* not reached when the first fails, and has no outcome to choose then.
WriteOutcomes == {o \in BOOLEAN \X BOOLEAN : o[1] \/ o[2]}

\* Outcomes of the steps of a continue_with_* call, each reached only if the
\* ones before it succeeded.
ClarificationOutcomes ==
    {o \in {"ok", "adapter error"} \X {"ok", "adapter error"} \X BOOLEAN :
        /\ o[1] # "ok" => (o[2] = "ok" /\ o[3])
        /\ o[2] # "ok" => o[3]}

PermissionOutcomes ==
    {o \in {"ok", "adapter error"} \X BOOLEAN : o[1] # "ok" => o[2]}

Next ==
    \/ set_context
    \/ \E wOk \in BOOLEAN : Run(wOk)
    \/ \E review \in ReviewerOutput, o \in WriteOutcomes :
          ReviewerReturns(review, o[1], o[2])
    \/ \E how \in AgentFailure : ReviewerFails(how)
    \/ \E fix \in RevieweeOutput, o \in WriteOutcomes :
          RevieweeReturns(fix, o[1], o[2])
    \/ \E how \in AgentFailure : RevieweeFails(how)
    \/ Cancel
    \/ \E o \in ClarificationOutcomes :
          continue_with_clarification("use main", o[1], o[2], o[3])
    \/ \E o \in PermissionOutcomes :
          continue_with_permission("run tests", o[1], o[2])

Spec == Init /\ [][Next]_vars

----------------------------------------------------------------------------
\* Reading the record of the operation in progress

Positions == DOMAIN trace

\* entry e is an agent call of the given name that came back with an output
Returned(e, name) == e.kind = "return" /\ e.name = name /\ e.out # <<>>

\* entry e is a call of the given name that ended in the given failure
Failed(e, name, how) ==
    e.kind = "return" /\ e.name = name /\ e.out = <<>> /\ e.text = <<how>>

\* positions of the calls of an agent made for iteration n
CallsOf(name, n) ==
    { i \in Positions : trace[i].kind = "call" /\ trace[i].name = name
                        /\ trace[i].num = n }

CallsNamed(name) ==
    { i \in Positions : trace[i].kind = "call" /\ trace[i].name = name }

\* positions of the successful session writes of (n, st)
SessionWritesOf(n, st) ==
    { i \in Positions : /\ trace[i].kind = "write" /\ trace[i].name = "session"
                        /\ trace[i].ok /\ trace[i].num = n
                        /\ trace[i].text = <<st>> }

\* the snapshot file holds (n, st)
Persisted(n, st) ==
    disk_session = [exists |-> TRUE, iteration |-> n, state |-> st]

\* the history file holds an entry of the given type for iteration n
HistoryHas(n, type) ==
    \E j \in DOMAIN disk_history :
        disk_history[j].iteration = n /\ disk_history[j].type = type

\* run has returned the error of a durable write that failed after position i
\* (the infrastructure fault of section 4.1 of the specification)
FailedOnWriteAfter(i) ==
    /\ pc = "idle"
    /\ result.kind = "Err"
    /\ Len(trace) > i
    /\ trace[Len(trace)].kind = "write"
    /\ ~trace[Len(trace)].ok

Contains(text, piece) == \E j \in DOMAIN text : text[j] = piece

----------------------------------------------------------------------------
\* Properties of Orchestrator::run

\* C1  Approval short-circuit.  Whenever the reviewer call of iteration k of
\* the run in progress has come back with an Approve verdict, run has ended,
\* the reviewee was not called for iteration k, and run returned
\* Approved{iteration: k, summary: the verdict's summary} with the session
\* state Completed in memory and on disk -- unless a durable write made after
\* the verdict failed, in which case run returned that error (section 4.1:
\* run fails only on infrastructure faults).
C1_ApprovalShortCircuit ==
    \A i \in Positions :
        (Returned(trace[i], "run_reviewer") /\ trace[i].out[1].action = "Approve")
        => LET k == trace[i].num
               verdict == trace[i].out[1]
           IN  /\ pc = "idle"
               /\ CallsOf("run_reviewee", k) = {}
               /\ \/ /\ result.kind = "Approved"
                     /\ result.iteration = k
                     /\ result.text = <<verdict.summary>>
                     /\ session.state = "Completed"
                     /\ Persisted(k, "Completed")
                  \/ FailedOnWriteAfter(i)

\* an approval at a second iteration
C1_Witness ==
    /\ result.kind = "Approved"
    /\ result.iteration = 2
    /\ session.state = "Completed"
    /\ \E i \in Positions : Returned(trace[i], "run_reviewer")
                            /\ trace[i].num = 2
                            /\ trace[i].out[1].action = "Approve"

\* C2  Iteration monotonicity.  No step lowers the persisted iteration; each
\* loop pass that persists its snapshot (and so reaches its reviewer call)
\* persists an iteration strictly greater than the one on disk before it,
\* hence than that of every earlier pass, in the same run call or an earlier
\* one; and the session iteration never exceeds max_iterations.
C2_IterationMonotonic ==
    [][ /\ disk_session'.iteration >= disk_session.iteration
        /\ (pc' = "reviewer" /\ pc # "reviewer")
              => /\ disk_session'.iteration > disk_session.iteration
                 /\ disk_session'.iteration = session'.iteration
        /\ session'.iteration >= session.iteration
        /\ session'.iteration <= max_iterations
        /\ disk_session'.iteration <= max_iterations ]_vars

\* a pass of a second run call has persisted an iteration after an earlier
\* pass persisted a smaller one
C2_Witness ==
    /\ runs = 2
    /\ pc = "reviewer"
    /\ HistoryHas(1, "Review")
    /\ disk_session.iteration >= 2
    /\ disk_session.iteration = max_iterations

\* C3  Exhaustion.  When the first run call has ended and, in it, every
\* reviewer call came back with a verdict other than Approve, every reviewee
\* call came back with status Completed and every durable write succeeded,
\* then it returned MaxIterationsReached{iteration: max_iterations} after
\* exactly max_iterations reviewer calls and max_iterations reviewee calls.
C3_Exhaustion ==
    ( /\ runs = 1 /\ op = "run" /\ pc = "idle"
      /\ trace # <<>>
      /\ \A i \in Positions :
            /\ trace[i].kind = "return" => trace[i].out # <<>>
            /\ Returned(trace[i], "run_reviewer") => trace[i].out[1].action # "Approve"
            /\ Returned(trace[i], "run_reviewee") => trace[i].out[1].status = "Completed"
            /\ trace[i].kind = "write" => trace[i].ok )
    => /\ result.kind = "MaxIterationsReached"
       /\ result.iteration = max_iterations
       /\ Cardinality(CallsNamed("run_reviewer")) = max_iterations
       /\ Cardinality(CallsNamed("run_reviewee")) = max_iterations

\* the case of the specification: max_iterations = 3
C3_Witness ==
    /\ runs = 1 /\ op = "run" /\ pc = "idle"
    /\ max_iterations = 3
    /\ result.kind = "MaxIterationsReached"
    /\ Cardinality(CallsNamed("run_reviewee")) = 3
    /\ \A i \in Positions :
          Returned(trace[i], "run_reviewee") => trace[i].out[1].status = "Completed"

\* C4  Pause for clarification.  Whenever the reviewee call of iteration k
\* has come back with status NeedsClarification and a question, run has ended
\* with Aborted{iteration: k} whose reason contains the question text, and
\* the snapshot (k, WaitingForClarification) was written successfully during
\* the run and is what the session file holds -- unless a durable write made
\* after the output failed, in which case run returned that error.
C4_PauseForClarification ==
    \A i \in Positions :
        ( /\ Returned(trace[i], "run_reviewee")
          /\ trace[i].out[1].status = "NeedsClarification"
          /\ trace[i].out[1].question # <<>> )
        => LET k == trace[i].num
               question == trace[i].out[1].question[1]
           IN  /\ pc = "idle"
               /\ \/ /\ result.kind = "Aborted"
                     /\ result.iteration = k
                     /\ Contains(result.text, question)
                     /\ session.state = "WaitingForClarification"
                     /\ SessionWritesOf(k, "WaitingForClarification") # {}
                     /\ Persisted(k, "WaitingForClarification")
                  \/ FailedOnWriteAfter(i)

C4_Witness ==
    /\ result.kind = "Aborted"
    /\ result.iteration = 2
    /\ Persisted(2, "WaitingForClarification")
    /\ Contains(result.text, "which branch?")

\* C5  Pause for permission.  Whenever the reviewee call of iteration k has
\* come back with status NeedsPermission and a permission request, run has
\* ended without a further agent call; it wrote the snapshot
\* (k, WaitingForPermission), then sent PermissionNeeded(action, reason),
\* then StateChanged(WaitingForPermission), and returned Aborted{iteration: k}
\* whose reason names the requested action -- unless a durable write made
\* after the output failed, in which case run returned that error.
C5_PauseForPermission ==
    \A i \in Positions :
        ( /\ Returned(trace[i], "run_reviewee")
          /\ trace[i].out[1].status = "NeedsPermission"
          /\ trace[i].out[1].permission_request # <<>> )
        => LET k == trace[i].num
               perm == trace[i].out[1].permission_request[1]
               last == Len(trace)
           IN  /\ pc = "idle"
               /\ \A j \in Positions : j > i => trace[j].kind # "call"
               /\ \/ /\ result.kind = "Aborted"
                     /\ result.iteration = k
                     /\ Contains(result.text, perm.action)
                     /\ session.state = "WaitingForPermission"
                     /\ Persisted(k, "WaitingForPermission")
                     /\ last >= i + 5
                     /\ trace[last - 2].kind = "write"
                     /\ (last - 2) \in SessionWritesOf(k, "WaitingForPermission")
                     /\ trace[last - 1].kind = "event"
                     /\ trace[last - 1].name = "PermissionNeeded"
                     /\ trace[last - 1].text = <<perm.action, perm.reason>>
                     /\ trace[last].kind = "event"
                     /\ trace[last].name = "StateChanged"
                     /\ trace[last].text = <<"WaitingForPermission">>
                  \/ FailedOnWriteAfter(i)

C5_Witness ==
    /\ result.kind = "Aborted"
    /\ session.state = "WaitingForPermission"
    /\ Persisted(session.iteration, "WaitingForPermission")
    /\ Contains(result.text, "run tests")
    /\ trace[Len(trace)].text = <<"WaitingForPermission">>

\* C6  Reviewee fatal error.  Whenever the reviewee call of iteration k has
\* come back with status Error, run has ended; it wrote the snapshot
\* (k, Error), then sent Error(error), then StateChanged(Error), and returned
\* the RallyResult Error{iteration: k, error} (not a propagated error), where
\* error is the output's error detail if there is one and "Unknown error"
\* otherwise -- unless a durable write made after the output failed, in which
\* case run returned that error.
C6_RevieweeError ==
    \A i \in Positions :
        ( /\ Returned(trace[i], "run_reviewee")
          /\ trace[i].out[1].status = "Error" )
        => LET k == trace[i].num
               details == trace[i].out[1].error_details
               error == IF details = <<>> THEN "Unknown error" ELSE details[1]
               last == Len(trace)
           IN  /\ pc = "idle"
               /\ \/ /\ result.kind = "Error"
                     /\ result.iteration = k
                     /\ result.text = <<error>>
                     /\ session.state = "Error"
                     /\ Persisted(k, "Error")
                     /\ last >= i + 5
                     /\ (last - 2) \in SessionWritesOf(k, "Error")
                     /\ trace[last - 1].kind = "event"
                     /\ trace[last - 1].name = "Error"
                     /\ trace[last - 1].text = <<error>>
                     /\ trace[last].kind = "event"
                     /\ trace[last].name = "StateChanged"
                     /\ trace[last].text = <<"Error">>
                  \/ FailedOnWriteAfter(i)

\* an Error output without detail
C6_Witness ==
    /\ result.kind = "Error"
    /\ result.text = <<"Unknown error">>
    /\ Persisted(result.iteration, "Error")
    /\ \E i \in Positions : /\ Returned(trace[i], "run_reviewee")
                            /\ trace[i].out[1].status = "Error"
                            /\ trace[i].out[1].error_details = <<>>

\* a reviewee output whose status calls for a payload it does not carry
Malformed(fix) ==
    \/ fix.status = "NeedsClarification" /\ fix.question = <<>>
    \/ fix.status = "NeedsPermission" /\ fix.permission_request = <<>>

\* C7  Contract violation.  Whenever the reviewee call has come back with
\* NeedsClarification and no question, or NeedsPermission and no permission
\* request, run has ended with a propagated error and no further iteration
\* was started.
C7_ContractViolationFails ==
    \A i \in Positions :
        (Returned(trace[i], "run_reviewee") /\ Malformed(trace[i].out[1]))
        => /\ pc = "idle"
           /\ result.kind = "Err"
           /\ \A j \in Positions :
                 j > i => ~(trace[j].kind = "event" /\ trace[j].name = "IterationStarted")

\* the run in progress attempted a history write of the given type for n
HistoryWriteTried(n, type) ==
    \E j \in Positions : /\ trace[j].kind = "write" /\ trace[j].name = "history"
                         /\ trace[j].num = n /\ trace[j].text = <<type>>

\* what C8 says of a timed-out call of the given agent at position i
TimeoutIsFatal(i, agent, who, type, st) ==
    LET n == trace[i].num
    IN  /\ i = Len(trace)
        /\ pc = "idle"
        /\ result.kind = "Err"
        /\ Contains(result.text, who) /\ Contains(result.text, " timeout after ")
        /\ Cardinality(CallsOf(agent, n)) = 1
        /\ \A j \in CallsNamed(agent) : j < i
        /\ ~HistoryWriteTried(n, type)
        /\ ~HistoryHas(n, type)
        /\ session.iteration = n
        /\ Persisted(n, st)

\* C8  Agent timeout is fatal and not retried.  Whenever the reviewer call
\* (the reviewee call) of iteration n has timed out, that is the last thing
\* the run did: run returned a propagated timeout error, the agent was called
\* once for iteration n and not again, no history entry was written for the
\* call, and the session file holds (n, ReviewerReviewing) (resp.
\* (n, RevieweeFix)).
C8_TimeoutIsFatal ==
    \A i \in Positions :
        /\ Failed(trace[i], "run_reviewer", "timeout")
              => TimeoutIsFatal(i, "run_reviewer", "Reviewer", "Review",
                                "ReviewerReviewing")
        /\ Failed(trace[i], "run_reviewee", "timeout")
              => TimeoutIsFatal(i, "run_reviewee", "Reviewee", "Fix",
                                "RevieweeFix")

\* a reviewee timeout in a second iteration
C8_Witness ==
    /\ trace # <<>>
    /\ Failed(trace[Len(trace)], "run_reviewee", "timeout")
    /\ trace[Len(trace)].num = 2
    /\ result.kind = "Err"
    /\ Persisted(2, "RevieweeFix")

\* C9  Persistence failure aborts the run.  Whenever a session write or a
\* history write of the run in progress has failed, that is the last thing
\* the run did (no agent call, durable write or event follows it) and run has
\* returned a propagated error.
C9_PersistenceFailureAborts ==
    op = "run" =>
        \A i \in Positions :
            (trace[i].kind = "write" /\ ~trace[i].ok)
            => /\ i = Len(trace)
               /\ pc = "idle"
               /\ result.kind = "Err"

\* a history write that failed in a second iteration
C9_Witness ==
    /\ op = "run"
    /\ trace # <<>>
    /\ trace[Len(trace)].kind = "write"
    /\ trace[Len(trace)].name = "history"
    /\ ~trace[Len(trace)].ok
    /\ trace[Len(trace)].num = 2
    /\ result.kind = "Err"

\* the states run enters
EnteredStates == RallyState \ {"Initializing"}

\* C10  Persist before announce.  Every StateChanged(s) event of the run in
\* progress, for a state s that run enters, comes after a successful write of
\* the session snapshot with state s, with nothing but events in between.
C10_PersistBeforeAnnounce ==
    op = "run" =>
        \A j \in Positions :
            ( /\ trace[j].kind = "event" /\ trace[j].name = "StateChanged"
              /\ trace[j].text[1] \in EnteredStates )
            => \E i \in Positions :
                  /\ i < j
                  /\ trace[i].kind = "write" /\ trace[i].name = "session"
                  /\ trace[i].ok
                  /\ trace[i].text = trace[j].text
                  /\ \A m \in (i + 1)..(j - 1) : trace[m].kind = "event"

----------------------------------------------------------------------------
\* Steps, and what a step adds to the record

RunCalled      == runs' = runs + 1
ContinueCalled == continues' = continues + 1

\* the entries the step has appended (a call of an operation starts a new
\* record)
NewEntries ==
    IF RunCalled \/ ContinueCalled THEN trace'
    ELSE SubSeq(trace', Len(trace) + 1, Len(trace'))

IsSessionWriteOk(e) == e.kind = "write" /\ e.name = "session" /\ e.ok

IsWrite(e) == e.kind = "write"

PrefixOf(a, b) == Len(a) <= Len(b) /\ SubSeq(b, 1, Len(a)) = a

SnapshotOf(s) == [exists |-> TRUE, iteration |-> s.iteration, state |-> s.state]

\* C11  The on-disk session is never ahead of reality.  In every step
\* (return of an agent call, timeout, failed write, cancellation of a call in
\* flight, continue_with_* call): the session file changes only when the step
\* made a successful session write, and then it holds the pair of the last
\* such write, which is the pair the in-memory session has reached; the file's
\* iteration never exceeds the session's; the history on disk only grows at
\* its end, and no (iteration, type) entry is written twice, so that no entry
\* is removed or overwritten.
C11_DiskNeverAhead ==
    [][ LET written == SelectSeq(NewEntries, IsSessionWriteOk)
        IN  /\ written = <<>> => disk_session' = disk_session
            /\ written # <<>> =>
                 LET w == written[Len(written)]
                 IN  /\ disk_session'.exists
                     /\ disk_session'.iteration = w.num
                     /\ <<disk_session'.state>> = w.text
                     /\ disk_session' = SnapshotOf(session')
            /\ disk_session'.iteration <= session'.iteration
            /\ PrefixOf(disk_history, disk_history')
            /\ \A i, j \in DOMAIN disk_history' :
                  disk_history'[i] = disk_history'[j] => i = j ]_vars

\* a call cancelled in flight in a second iteration, after three history
\* entries were written
C11_Witness ==
    /\ result.kind = "Cancelled"
    /\ Persisted(2, "RevieweeFix")
    /\ Len(disk_history) = 3

\* C12  State transitions.  The session state is always exactly one
\* RallyState; when it changes from ReviewerReviewing it becomes RevieweeFix,
\* Completed or Error; when it changes from RevieweeFix it becomes
\* WaitingForClarification, WaitingForPermission, Error, or ReviewerReviewing,
\* and the latter only together with the start of the next loop pass.
C12_StateTransitions ==
    [][ /\ session'.state \in RallyState
        /\ (session.state = "ReviewerReviewing" /\ session'.state # session.state)
              => session'.state \in {"RevieweeFix", "Completed", "Error"}
        /\ (session.state = "RevieweeFix" /\ session'.state # session.state)
              => /\ session'.state \in {"ReviewerReviewing", "WaitingForClarification",
                                        "WaitingForPermission", "Error"}
                 /\ session'.state = "ReviewerReviewing"
                       => /\ session'.iteration = session.iteration + 1
                          /\ \E i \in DOMAIN NewEntries :
                                NewEntries[i] = IterationStarted(session'.iteration) ]_vars

\* the reviewer of a second pass is reviewing, after a fix was completed
C12_Witness ==
    /\ session.state = "ReviewerReviewing"
    /\ session.iteration = 2
    /\ pc = "reviewer"
    /\ HistoryHas(1, "Fix")

\* the events C14 is about: all but Log (agent progress events are sent by
\* the adapters, not by the orchestrator)
IsOrderedEvent(e) == e.kind = "event" /\ e.name # "Log"

IsIterationStarted(e) == e.kind = "event" /\ e.name = "IterationStarted"

OrderedEvents == SelectSeq(trace, IsOrderedEvent)

IsStateChanged(e, st) == e.name = "StateChanged" /\ e.text = <<st>>

\* event b may come directly after event a
MayFollow(a, b) ==
    CASE IsStateChanged(a, "Initializing") -> b.name = "IterationStarted"
      [] a.name = "IterationStarted" -> IsStateChanged(b, "ReviewerReviewing")
      [] IsStateChanged(a, "ReviewerReviewing") -> b.name = "ReviewCompleted"
      [] a.name = "ReviewCompleted" ->
            IF a.out[1].action = "Approve"
            THEN b.name = "Approved" /\ b.text = <<a.out[1].summary>>
            ELSE IsStateChanged(b, "RevieweeFix")
      [] a.name = "Approved" -> IsStateChanged(b, "Completed")
      [] IsStateChanged(a, "RevieweeFix") -> b.name = "FixCompleted"
      [] a.name = "FixCompleted" ->
            \/ b.name = "IterationStarted"
                  /\ a.out[1].status \in {"Completed", "NeedsClarification",
                                          "NeedsPermission"}
            \/ b.name = "ClarificationNeeded"
                  /\ a.out[1].status = "NeedsClarification"
            \/ b.name = "PermissionNeeded"
                  /\ a.out[1].status = "NeedsPermission"
            \/ b.name = "Error" /\ a.out[1].status = "Error"
      [] a.name = "ClarificationNeeded" -> IsStateChanged(b, "WaitingForClarification")
      [] a.name = "PermissionNeeded" -> IsStateChanged(b, "WaitingForPermission")
      [] a.name = "Error" -> IsStateChanged(b, "Error")
      [] OTHER -> FALSE

\* C14  Event order.  Leaving Log events out, the events of a run are
\* StateChanged(Initializing) and then, iteration after iteration with
\* consecutive numbers, a prefix of: IterationStarted(n),
\* StateChanged(ReviewerReviewing), ReviewCompleted, then Approved and
\* StateChanged(Completed), or StateChanged(RevieweeFix), FixCompleted and
\* the pair of the fix status (ClarificationNeeded, PermissionNeeded or Error,
\* each followed by the StateChanged of its state); the next iteration starts
\* only after FixCompleted.
C14_EventOrder ==
    op = "run" =>
        LET ev == OrderedEvents
            starts == SelectSeq(trace, IsIterationStarted)
        IN  /\ ev # <<>> => IsStateChanged(ev[1], "Initializing")
            /\ \A i \in 1..(Len(ev) - 1) : MayFollow(ev[i], ev[i + 1])
            /\ \A i \in 1..(Len(starts) - 1) : starts[i + 1].num = starts[i].num + 1
            /\ pc = "idle" /\ result.kind \in {"Approved", "Aborted", "Error"}
                  => /\ ev[Len(ev)].name = "StateChanged"
                     /\ ev[Len(ev)].text = <<session.state>>

\* a run of two iterations that ended in the permission pause
C14_Witness ==
    /\ op = "run"
    /\ result.kind = "Aborted"
    /\ session.iteration = 2
    /\ Len(OrderedEvents) = 13
    /\ IsStateChanged(OrderedEvents[13], "WaitingForPermission")

IsCallOf(e, name) == e.kind = "call" /\ e.name = name

IsEndOf(e, name, how) == e.kind = "return" /\ e.name = name /\ e.text = <<how>>

\* C15  Resume after clarification.  A continue_with_clarification(answer)
\* call first calls continue_reviewer with the clarification prompt built
\* from the answer; only if that succeeds it calls continue_reviewee with the
\* raw answer; only if both succeed it sets the state to RevieweeFix (the
\* iteration stays) and writes the session, and the file holds that pair when
\* the write succeeds.  If a continuation fails the call returns the error,
\* the session is as before and no write is attempted.
C15_ResumeAfterClarification ==
    [][ (ContinueCalled /\ op' = "continue_with_clarification") =>
          LET t == trace'
              answer == t[1].text[3]
              bothOk == /\ Len(t) >= 4
                        /\ IsEndOf(t[2], "continue_reviewer", "ok")
                        /\ IsEndOf(t[4], "continue_reviewee", "ok")
          IN  /\ pc' = "idle"
              /\ IsCallOf(t[1], "continue_reviewer")
              /\ t[1].text[1] = "The developer has a question about your review feedback:"
              /\ t[2].kind = "return" /\ t[2].name = "continue_reviewer"
              /\ ~IsEndOf(t[2], "continue_reviewer", "ok")
                    => Len(t) = 2
              /\ IsEndOf(t[2], "continue_reviewer", "ok")
                    => /\ Len(t) >= 4
                       /\ IsCallOf(t[3], "continue_reviewee")
                       /\ t[3].text = <<answer>>
                       /\ t[4].kind = "return" /\ t[4].name = "continue_reviewee"
              /\ ~bothOk
                    => /\ session' = session
                       /\ disk_session' = disk_session
                       /\ SelectSeq(t, IsWrite) = <<>>
                       /\ result'.kind = "Err"
              /\ bothOk
                    => /\ Len(t) = 5
                       /\ session'.state = "RevieweeFix"
                       /\ session'.iteration = session.iteration
                       /\ t[5].kind = "write" /\ t[5].name = "session"
                       /\ t[5].text = <<"RevieweeFix">>
                       /\ t[5].ok => /\ disk_session' = SnapshotOf(session')
                                     /\ result'.kind = "Ok"
                       /\ ~t[5].ok => /\ disk_session' = disk_session
                                      /\ result'.kind = "Err"
              /\ disk_history' = disk_history ]_vars

\* a successful call after the fix of iteration 1 was recorded
C15_Witness ==
    /\ op = "continue_with_clarification"
    /\ result.kind = "Ok"
    /\ Len(trace) = 5
    /\ Persisted(1, "RevieweeFix")
    /\ HistoryHas(1, "Fix")

\* C16  Resume after permission.  A continue_with_permission(action) call
\* calls continue_reviewee with the permission-granted prompt built from the
\* action and contacts no reviewer; if the continuation succeeds it sets the
\* state to RevieweeFix and writes the session, and the file holds that pair
\* when the write succeeds; if it fails the call returns the error and the
\* session is as before.  The iteration is unchanged in every case.
C16_ResumeAfterPermission ==
    [][ (ContinueCalled /\ op' = "continue_with_permission") =>
          LET t == trace'
          IN  /\ pc' = "idle"
              /\ \A i \in DOMAIN t :
                    t[i].name \notin {"continue_reviewer", "run_reviewer"}
              /\ IsCallOf(t[1], "continue_reviewee")
              /\ t[1].text[1] = "Permission has been granted for the following action:"
              /\ t[1].text[2] = "run tests"
              /\ t[2].kind = "return" /\ t[2].name = "continue_reviewee"
              /\ session'.iteration = session.iteration
              /\ disk_session'.iteration \in {disk_session.iteration, session.iteration}
              /\ IsEndOf(t[2], "continue_reviewee", "ok")
                    => /\ Len(t) = 3
                       /\ session'.state = "RevieweeFix"
                       /\ t[3].kind = "write" /\ t[3].name = "session"
                       /\ t[3].text = <<"RevieweeFix">>
                       /\ t[3].ok => /\ disk_session' = SnapshotOf(session')
                                     /\ result'.kind = "Ok"
                       /\ ~t[3].ok => /\ disk_session' = disk_session
                                      /\ result'.kind = "Err"
              /\ ~IsEndOf(t[2], "continue_reviewee", "ok")
                    => /\ Len(t) = 2
                       /\ session' = session
                       /\ disk_session' = disk_session
                       /\ result'.kind = "Err" ]_vars

\* a successful call after the fix of iteration 2 was recorded
C16_Witness ==
    /\ op = "continue_with_permission"
    /\ result.kind = "Ok"
    /\ Persisted(2, "RevieweeFix")
    /\ HistoryHas(2, "Fix")

\* C17  Missing context.  A run call made while no context is set returns
\* the propagated error "Context not set" and does nothing else: it sends no
\* event, calls no agent, writes nothing, and leaves the session and the
\* files as they were.
C17_MissingContext ==
    [][ (RunCalled /\ ~context) =>
          /\ result' = [kind |-> "Err", iteration |-> 0, text |-> <<"Context not set">>]
          /\ trace' = <<>>
          /\ pc' = "idle"
          /\ session' = session
          /\ last_review' = last_review
          /\ last_fix' = last_fix
          /\ disk_session' = disk_session
          /\ disk_history' = disk_history
          /\ context' = context ]_vars

\* run was called on a fresh orchestrator without context
C17_Witness ==
    /\ op = "run"
    /\ ~context
    /\ runs >= 1
    /\ result.kind = "Err"
    /\ result.text = <<"Context not set">>
    /\ trace = <<>>

----------------------------------------------------------------------------
\* The event channel: what send_event does with each event of a run, with a
\* consumer that receives when it likes, or never, or drops its receiver.

\* the send_event calls of a run whose first review approves
ApprovedRunEvents(review) ==
    <<StateChanged("Initializing")>> \o PassStartEvents(1) \o
    <<ReviewCompleted(review), ApprovedEvent(review.summary), StateChanged("Completed")>>

\* the send_event calls of a run with max_iterations = 0
ExhaustedRunEvents ==
    <<StateChanged("Initializing"), Log(<<"Max iterations reached">>, 0)>>

SinkPrograms ==
    {ExhaustedRunEvents} \cup
    {ApprovedRunEvents(review) : review \in {o \in ReviewerOutput : IsApprove(o)}}

\* Sender::send(event): Err as soon as the receiver is gone
SendFails == sink_closed

\* Sender::send(event): a permit is there when the buffer has room
SendHasRoom == Len(sink_queue) < sink_capacity

\* send_event: `let _ = self.event_sender.send(event).await;`
\* send resolves with Err on a closed channel (the Err is thrown away), with
\* Ok once the buffer has room, and stays pending while the buffer is full
\* and the receiver is alive.
SendEvent ==
    /\ sink_todo # <<>>
    /\ \/ /\ SendFails
          /\ sink_dropped' = Append(sink_dropped, Head(sink_todo))
          /\ sink_queue' = sink_queue
       \/ /\ ~SendFails
          /\ SendHasRoom
          /\ sink_queue' = Append(sink_queue, Head(sink_todo))
          /\ sink_dropped' = sink_dropped
    /\ sink_todo' = Tail(sink_todo)
    /\ UNCHANGED <<sink_capacity, sink_closed>>
    /\ UNCHANGED <<orch_vars, store_vars, post_vars, prompt_vars>>

\* the consumer takes the oldest event
Receive ==
    /\ ~sink_closed
    /\ sink_queue # <<>>
    /\ sink_queue' = Tail(sink_queue)
    /\ UNCHANGED <<sink_capacity, sink_closed, sink_todo, sink_dropped>>
    /\ UNCHANGED <<orch_vars, store_vars, post_vars, prompt_vars>>

\* the consumer drops its receiver; what was buffered goes with it
CloseReceiver ==
    /\ ~sink_closed
    /\ sink_closed' = TRUE
    /\ sink_queue' = <<>>
    /\ UNCHANGED <<sink_capacity, sink_todo, sink_dropped>>
    /\ UNCHANGED <<orch_vars, store_vars, post_vars, prompt_vars>>

SinkInit ==
    /\ max_iterations = 0
    /\ OrchestratorNew
    /\ sink_capacity \in 1..MaxSinkCapacity
    /\ sink_todo \in SinkPrograms
    /\ sink_queue = <<>>
    /\ sink_closed = FALSE
    /\ sink_dropped = <<>>
    /\ StoreUnused
    /\ PostUnused
    /\ PromptUnused

SinkNext ==
    \/ SendEvent
    \/ Receive
    \/ CloseReceiver

SinkSpec == SinkInit /\ [][SinkNext]_vars

\* C13: run never waits for the consumer: whenever run has an event to hand
\* to send_event, the call completes at once, the event being delivered or
\* dropped, whether the sink is full or closed.
C13_NeverBlocksOnSink ==
    sink_todo # <<>> => ENABLED SendEvent

----------------------------------------------------------------------------
\* The pending-review store: write_pending_review, read_pending_review and
\* find_pending_reviews over a file system in which a path names a file and
\* an open file stays the same file whatever the path is made to name later.

\* the file behind a path, as an Option
FileAt(path) ==
    IF fs_files[path] = 0 THEN <<>> ELSE <<fs_inodes[fs_files[path]]>>

\* the padding a write beyond the end of a file leaves before it
Hole(n) == [i \in 1..n |-> Tok("nul", "")]

\* one write of tok at offset off
WriteAt(data, off, tok) ==
    LET padded == IF Len(data) < off THEN data \o Hole(off - Len(data)) ELSE data
    IN  IF Len(padded) = off THEN Append(padded, tok)
        ELSE [padded EXCEPT ![off + 1] = tok]

RenamedBackwards(files, from, to) ==
    IF from = to THEN files
    ELSE [files EXCEPT ![from] = files[to], ![to] = 0]

\* fs::rename(from, to)
Renamed(files, from, to) ==
    IF from = to THEN files
    ELSE [files EXCEPT ![to] = files[from], ![from] = 0]

StoreFrame == UNCHANGED <<orch_vars, sink_vars, post_vars, prompt_vars>>

\* write_pending_review, lines 24-29: the call, rally_dir and create_dir_all
WriteBegin(w, p, ok) ==
    /\ writer[w].pc = "idle"
    /\ writes < MaxWrites
    /\ writes' = writes + 1
    /\ IF ok
       THEN /\ fs_root' = TRUE
            /\ fs_dirs' = fs_dirs \cup {WriterDir}
            /\ writer' = [writer EXCEPT ![w] =
                    [pc |-> "open", review |-> <<p>>, fd |-> 0, off |-> 0,
                     result |-> NoStoreResult]]
       ELSE /\ UNCHANGED <<fs_root, fs_dirs>>
            /\ writer' = [writer EXCEPT ![w] =
                    [pc |-> "idle", review |-> <<p>>, fd |-> 0, off |-> 0,
                     result |-> StoreErr("Failed to create rally directory")]]
    /\ UNCHANGED <<fs_entry_err, fs_files, fs_inodes, reader, found, published>>
    /\ StoreFrame

\* fs::write(&temp_path, ..), first half: the file is created, or the file
\* already behind temp_path is emptied
WriteOpen(w, ok) ==
    /\ writer[w].pc = "open"
    /\ LET temp == TempPath(JsonPath(WriterDir))
           i    == fs_files[temp]
       IN  IF ok /\ (i = 0 \/ fs_inodes[i].readable)
           THEN /\ IF i = 0
                   THEN /\ fs_inodes' = Append(fs_inodes, File(<<>>, TRUE))
                        /\ fs_files' = [fs_files EXCEPT ![temp] = Len(fs_inodes) + 1]
                        /\ writer' = [writer EXCEPT ![w].pc = "write",
                                                    ![w].fd = Len(fs_inodes) + 1]
                   ELSE /\ fs_inodes' = [fs_inodes EXCEPT ![i].data = <<>>]
                        /\ fs_files' = fs_files
                        /\ writer' = [writer EXCEPT ![w].pc = "write", ![w].fd = i]
           ELSE /\ UNCHANGED <<fs_inodes, fs_files>>
                /\ writer' = [writer EXCEPT ![w].pc = "idle", ![w].result =
                        StoreErr("Failed to write temporary pending review file")]
    /\ UNCHANGED <<fs_root, fs_dirs, fs_entry_err, reader, found, published, writes>>
    /\ StoreFrame

\* fs::write(&temp_path, ..), second half: the content goes into the open
\* file piece by piece; a failure leaves what was written so far
WriteData(w, ok) ==
    /\ writer[w].pc = "write"
    /\ LET content == to_string_pretty(writer[w].review[1])
           i       == writer[w].fd
           off     == writer[w].off
       IN  IF ok
           THEN /\ fs_inodes' = [fs_inodes EXCEPT ![i].data =
                                     WriteAt(@, off, content[off + 1])]
                /\ writer' = [writer EXCEPT
                        ![w].off = off + 1,
                        ![w].pc = IF off + 1 = Len(content) THEN "rename" ELSE "write"]
           ELSE /\ fs_inodes' = fs_inodes
                /\ writer' = [writer EXCEPT ![w].pc = "idle", ![w].result =
                        StoreErr("Failed to write temporary pending review file")]
    /\ UNCHANGED <<fs_root, fs_dirs, fs_entry_err, fs_files, reader, found,
                   published, writes>>
    /\ StoreFrame

CleanupPublished(path) == path

\* line 36: the path remove_file is given after a failed rename
CleanupTarget(path) == TempPath(path)

\* lines 35-40: fs::rename(&temp_path, &path); if it fails the temporary
\* file is removed (a failure of the removal is thrown away) and the error
\* is returned
Rename(w, ok, rmOk) ==
    /\ writer[w].pc = "rename"
    /\ LET path == JsonPath(WriterDir)
           temp == TempPath(path)
       IN  IF ok /\ fs_files[temp] # 0
           THEN /\ fs_files' = Renamed(fs_files, temp, path)
                /\ published' = Append(published, fs_inodes[fs_files[temp]])
                /\ writer' = [writer EXCEPT ![w].pc = "idle",
                                            ![w].result = StoreOk(path)]
           ELSE /\ fs_files' = IF rmOk
                               THEN [fs_files EXCEPT ![CleanupTarget(path)] = 0]
                               ELSE fs_files
                /\ published' = published
                /\ writer' = [writer EXCEPT ![w].pc = "idle", ![w].result =
                        StoreErr("Failed to rename pending review file")]
    /\ UNCHANGED <<fs_root, fs_dirs, fs_entry_err, fs_inodes, reader, found, writes>>
    /\ StoreFrame

ReadVersionAny(v) == TRUE

\* line 48, negated: review.version != CURRENT_VERSION is the failure
ReadVersionSupported(v) == v = CURRENT_VERSION

\* read_pending_review, lines 45-56: what it makes of the content it read
ReadResult(content) ==
    LET parsed == from_str(content)
    IN  IF Len(parsed) = 0
        THEN StoreErr("Failed to parse pending review file")
        ELSE IF ~ReadVersionSupported(parsed[1].version)
        THEN StoreErr("Unsupported pending review version")
        ELSE StoreOk(parsed[1])

\* read_pending_review(path), line 44, first half: read_to_string opens the
\* file behind the path
ReadOpen ==
    /\ reader.pc = "idle"
    /\ LET f == FileAt(JsonPath(WriterDir))
       IN  IF Len(f) = 0 \/ ~f[1].readable
           THEN reader' = [pc |-> "idle", fd |-> 0, buf |-> <<>>,
                           since |-> Len(published), seen |-> Len(published),
                           obs |-> f,
                           result |-> StoreErr("Failed to read pending review file")]
           ELSE reader' = [pc |-> "reading", fd |-> fs_files[JsonPath(WriterDir)],
                           buf |-> <<>>, since |-> Len(published),
                           seen |-> Len(published), obs |-> <<>>,
                           result |-> NoStoreResult]
    /\ UNCHANGED <<fs_root, fs_dirs, fs_entry_err, fs_files, fs_inodes, writer,
                   found, published, writes>>
    /\ StoreFrame

\* read_to_string, second half: the next piece of the open file, or at its
\* end the rest of read_pending_review
ReadChunk ==
    /\ reader.pc = "reading"
    /\ LET data == fs_inodes[reader.fd].data
           n    == Len(reader.buf)
       IN  IF n < Len(data)
           THEN reader' = [reader EXCEPT !.buf = Append(@, data[n + 1])]
           ELSE reader' = [reader EXCEPT !.pc = "idle",
                                         !.seen = Len(published),
                                         !.obs = <<File(reader.buf, TRUE)>>,
                                         !.result = ReadResult(reader.buf)]
    /\ UNCHANGED <<fs_root, fs_dirs, fs_entry_err, fs_files, fs_inodes, writer,
                   found, published, writes>>
    /\ StoreFrame

EntryVersionAny(v) == TRUE

\* line 85, negated
EntryVersionSupported(v) == v = CURRENT_VERSION

\* the closure of lines 78-95: the entry of one session directory, if any
EntryOf(d) ==
    LET f == FileAt(JsonPath(d))
    IN  IF Len(f) = 0 THEN <<>>
        ELSE IF ~f[1].readable THEN <<>>
        ELSE LET parsed == from_str(f[1].data)
             IN  IF Len(parsed) = 0 THEN <<>>
                 ELSE IF ~EntryVersionSupported(parsed[1].version) THEN <<>>
                 ELSE << [path       |-> JsonPath(d),
                          created_at |-> parsed[1].created_at,
                          review     |-> parsed[1].review] >>

\* entries.filter_map(closure).collect() over the directories as listed
RECURSIVE FilterMapEntries(_)
FilterMapEntries(order) ==
    IF Len(order) = 0 THEN <<>>
    ELSE EntryOf(Head(order)) \o FilterMapEntries(Tail(order))

\* where String::cmp puts a created_at
TimestampRank(t) == CHOOSE i \in 1..Len(Timestamps) : Timestamps[i] = t

\* e goes behind every entry that is not older than it
InsertEntry(sorted, e) ==
    LET k == Cardinality({i \in 1..Len(sorted) :
                 TimestampRank(sorted[i].created_at) >= TimestampRank(e.created_at)})
    IN  SubSeq(sorted, 1, k) \o <<e>> \o SubSeq(sorted, k + 1, Len(sorted))

AsListed(list) == list

\* results.sort_by(|a, b| b.created_at.cmp(&a.created_at)): stable, newest first
RECURSIVE SortNewestFirst(_)
SortNewestFirst(list) ==
    IF Len(list) = 0 THEN <<>>
    ELSE InsertEntry(SortNewestFirst(SubSeq(list, 1, Len(list) - 1)), list[Len(list)])

\* the orders in which read_dir can hand out the directories of S
Orders(S) ==
    {o \in [1..Cardinality(S) -> S] : \A i, j \in 1..Cardinality(S) : o[i] = o[j] => i = j}

\* find_pending_reviews with read_dir listing the directories in this order
find_pending_reviews(order) ==
    IF ~fs_root THEN <<>>
    ELSE SortNewestFirst(FilterMapEntries(order))

\* a find_pending_reviews call; entries that read_dir hands out as Err are
\* left out by filter_map(|e| e.ok())
Find ==
    /\ \E order \in Orders(fs_dirs \ fs_entry_err) :
          found' = [done |-> TRUE, list |-> find_pending_reviews(order)]
    /\ UNCHANGED <<fs_root, fs_dirs, fs_entry_err, fs_files, fs_inodes, writer,
                   reader, published, writes>>
    /\ StoreFrame

\* the session directories in a fixed order, for laying out the first files
DirOrder == <<"d1", "d2", "d3">>

DirIndex(d) == CHOOSE i \in 1..Len(DirOrder) : DirOrder[i] = d

\* a file system in which the directories of D may exist and hold leftovers
FsInit(D) ==
    /\ fs_root \in BOOLEAN
    /\ fs_dirs \in SUBSET D
    /\ ~fs_root => fs_dirs = {}
    /\ fs_entry_err \in {E \in SUBSET fs_dirs : Cardinality(E) <= 1}
    /\ \E left \in [Dirs -> {<<>>} \cup {<<f>> : f \in LeftoverFiles}] :
          /\ \A d \in Dirs \ fs_dirs : Len(left[d]) = 0
          /\ fs_inodes = [i \in 1..Len(DirOrder) |->
                            IF Len(left[DirOrder[i]]) = 0 THEN File(<<>>, TRUE)
                            ELSE left[DirOrder[i]][1]]
          /\ fs_files = [p \in Paths |->
                            IF p.name = "pending_review.json" /\ Len(left[p.dir]) # 0
                            THEN DirIndex(p.dir) ELSE 0]
          /\ published = left[WriterDir]
    /\ writer = [w \in Writers |-> WriterIdle]
    /\ reader = ReaderIdle
    /\ found = NotSearched
    /\ writes = 0
    /\ max_iterations = 0
    /\ OrchestratorNew
    /\ SinkUnused
    /\ PostUnused
    /\ PromptUnused

\* the reviews a caller hands to write_pending_review: the current version,
\* and a verdict that differs from one snapshot to the next
WrittenReviews ==
    {p \in PendingReview :
        /\ p.version = CURRENT_VERSION
        /\ p.review = "verdict A" <=> p.created_at = Timestamps[1]}

StoreInit == FsInit({WriterDir})

StoreNext ==
    \/ \E p \in WrittenReviews, ok \in BOOLEAN : WriteBegin("w1", p, ok)
    \/ \E ok \in BOOLEAN : WriteOpen("w1", ok)
    \/ \E ok \in BOOLEAN : WriteData("w1", ok)
    \/ \E ok, rmOk \in BOOLEAN : Rename("w1", ok, rmOk)
    \/ ReadOpen
    \/ ReadChunk

StoreSpec == StoreInit /\ [][StoreNext]_vars

DiscoveryInit == FsInit(Dirs)

DiscoveryNext == Find

DiscoverySpec == DiscoveryInit /\ [][DiscoveryNext]_vars

----------------------------------------------------------------------------
\* Claims about the pending-review store

\* a read_pending_review call has returned
ReadReturned == reader.pc = "idle" /\ reader.result.kind # "None"

\* the file is a whole snapshot of p
Holds(f, p) == f = File(to_string_pretty(p), TRUE)

\* C18: a read of the pending-review path that runs while the path is being
\* written sees no file (only if none had been published when it began), or
\* in full one of the files published from the one in place when it began
\* to the one in place when it ended; every file a write publishes is a whole
\* snapshot, and the file behind the path is always the last one published.
C18_AtomicPublish ==
    /\ FileAt(JsonPath(WriterDir)) =
          IF Len(published) = 0 THEN <<>> ELSE <<published[Len(published)]>>
    /\ \A i \in 1..Len(published) :
          \/ published[i] \in LeftoverFiles
          \/ \E p \in WrittenReviews : Holds(published[i], p)
    /\ ReadReturned =>
          IF Len(reader.obs) = 0 THEN reader.since = 0
          ELSE \E i \in reader.since..reader.seen :
                  i >= 1 /\ published[i] = reader.obs[1]

\* a read that began with a snapshot in place, went on while a write renamed
\* a new one into place, and returned the old snapshot whole
C18_Witness ==
    /\ ReadReturned
    /\ reader.result.kind = "Ok"
    /\ reader.since >= 1
    /\ reader.seen > reader.since
    /\ Holds(published[reader.since], reader.result.value[1])

\* C19: a read of a whole snapshot whose version is not 1 returns the
\* unsupported-version error and no PendingReview; a read returns Ok only for
\* a whole snapshot of version 1, and then returns that snapshot.
C19_VersionGate ==
    ReadReturned =>
        /\ \A p \in PendingReview :
              (Len(reader.obs) = 1 /\ Holds(reader.obs[1], p) /\ p.version # 1)
                  => reader.result = StoreErr("Unsupported pending review version")
        /\ reader.result.kind = "Ok" =>
              /\ Len(reader.obs) = 1
              /\ \E p \in PendingReview :
                    /\ p.version = 1
                    /\ Holds(reader.obs[1], p)
                    /\ reader.result.value = <<p>>
        /\ reader.result.kind # "Ok" => reader.result.value = <<>>
        /\ \A p \in PendingReview :
              (Len(reader.obs) = 1 /\ Holds(reader.obs[1], p) /\ p.version = 1)
                  => reader.result = StoreOk(p)

\* a read of a snapshot of version 2 has returned the unsupported-version error
C19_Witness ==
    /\ ReadReturned
    /\ Len(reader.obs) = 1
    /\ \E p \in PendingReview : Holds(reader.obs[1], p) /\ p.version = 2
    /\ reader.result.kind = "Err"
    /\ reader.result.error = "Unsupported pending review version"

\* the directory can be listed and its pending_review file is a whole,
\* readable snapshot of version 1
ValidDir(d) ==
    /\ fs_root
    /\ d \in fs_dirs \ fs_entry_err
    /\ \E p \in PendingReview :
          p.version = 1 /\ FileAt(JsonPath(d)) = <<File(to_string_pretty(p), TRUE)>>

EntriesFor(d) == {i \in 1..Len(found.list) : found.list[i].path = JsonPath(d)}

\* C20: find_pending_reviews returns a list with exactly one entry for each
\* session directory whose pending_review file is there, readable, whole and
\* of version 1, and none for any other directory; without a rally directory
\* to list the list is empty.
C20_DiscoveryRobust ==
    found.done =>
        /\ \A d \in Dirs :
              Cardinality(EntriesFor(d)) = IF ValidDir(d) THEN 1 ELSE 0
        /\ \A i \in 1..Len(found.list) : found.list[i].path \in {JsonPath(d) : d \in Dirs}
        /\ ~fs_root => found.list = <<>>

\* a scan over one good snapshot, one of version 2 and one truncated file
\* has returned the one entry
C20_Witness ==
    /\ found.done
    /\ Len(found.list) = 1
    /\ \E a, b, c \in Dirs :
          /\ ValidDir(a)
          /\ found.list[1].path = JsonPath(a)
          /\ b \in fs_dirs \ fs_entry_err
          /\ \E p \in PendingReview : p.version = 2 /\ FileAt(JsonPath(b)) = <<File(to_string_pretty(p), TRUE)>>
          /\ c \in fs_dirs \ fs_entry_err
          /\ Len(FileAt(JsonPath(c))) = 1
          /\ FileAt(JsonPath(c))[1].readable
          /\ Len(FileAt(JsonPath(c))[1].data) < 5

\* a was created later than b: its created_at comes later in the order of
\* the timestamps
CreatedLater(a, b) ==
    \E i, j \in 1..Len(Timestamps) :
        /\ Timestamps[i] = a.created_at
        /\ Timestamps[j] = b.created_at
        /\ i > j

\* C21: the list find_pending_reviews returns is sorted by creation time,
\* newest first: no entry stands before one that was created later.
C21_DiscoveryOrdering ==
    found.done =>
        \A i, j \in 1..Len(found.list) :
            i < j => ~CreatedLater(found.list[j], found.list[i])

\* a scan has returned three entries, not all created at the same time
C21_Witness ==
    /\ found.done
    /\ Len(found.list) = 3
    /\ CreatedLater(found.list[1], found.list[3])

\* the step in which write_pending_review of w returns the rename error
RenameFails(w) ==
    /\ writer[w].pc = "rename"
    /\ writer'[w].pc = "idle"
    /\ writer'[w].result = StoreErr("Failed to rename pending review file")

\* the step leaves the pending-review path, the file behind it and the
\* history of published files as they were
PublishedUntouched ==
    /\ fs_files'[JsonPath(WriterDir)] = fs_files[JsonPath(WriterDir)]
    /\ fs_inodes' = fs_inodes
    /\ published' = published

\* C25 as stated: when the rename of the temporary file into place fails,
\* write returns the rename error, the temporary path names no file any more,
\* and the published pending-review file is as it was.
C25_RenameFailureRemovesTemp ==
    [][\A w \in Writers :
          (writer[w].pc = "rename" /\ writer'[w].result.kind = "Err") =>
              /\ RenameFails(w)
              /\ fs_files'[TempPath(JsonPath(WriterDir))] = 0
              /\ PublishedUntouched]_vars

\* C25 as amended: when the rename of the temporary file into place fails,
\* write returns the rename error and the published pending-review file is
\* as it was; the temporary file is removed, or, when the removal fails as
\* well, is left as it was, and nothing else in the directory changes.
C25_RenameFailure ==
    [][\A w \in Writers :
          (writer[w].pc = "rename" /\ writer'[w].result.kind = "Err") =>
              /\ RenameFails(w)
              /\ PublishedUntouched
              /\ \/ fs_files' = [fs_files EXCEPT ![TempPath(JsonPath(WriterDir))] = 0]
                 \/ fs_files' = fs_files]_vars

\* a write whose rename failed has returned the error with the temporary
\* file gone and an earlier snapshot still in place
C25_Witness ==
    /\ writer["w1"].pc = "idle"
    /\ writer["w1"].result = StoreErr("Failed to rename pending review file")
    /\ fs_files[TempPath(JsonPath(WriterDir))] = 0
    /\ Len(published) >= 1
    /\ FileAt(JsonPath(WriterDir)) = <<published[Len(published)]>>

\* two write_pending_review calls for the same (repo, PR), in two processes
\* or tasks, each step of one between any two steps of the other
ConcurrentInit == FsInit({WriterDir})

ConcurrentNext ==
    \/ \E w \in Writers, p \in WrittenReviews, ok \in BOOLEAN : WriteBegin(w, p, ok)
    \/ \E w \in Writers, ok \in BOOLEAN : WriteOpen(w, ok)
    \/ \E w \in Writers, ok \in BOOLEAN : WriteData(w, ok)
    \/ \E w \in Writers, ok, rmOk \in BOOLEAN : Rename(w, ok, rmOk)

ConcurrentSpec == ConcurrentInit /\ [][ConcurrentNext]_vars

\* C33: while two write calls for the same (repo, PR) run at any interleaving
\* of their steps, the file behind the pending-review path is absent, or the
\* content that was there before, or the whole snapshot some write call was
\* given.
C33_ConcurrentPublishers ==
    LET f == FileAt(JsonPath(WriterDir))
    IN  \/ Len(f) = 0
        \/ f[1] \in LeftoverFiles
        \/ \E p \in WrittenReviews : Holds(f[1], p)

\* the last write_pending_review call of w returned Ok
WriteSucceeded(w) == writer[w].pc = "idle" /\ writer[w].result.kind = "Ok"

\* C32: when write_pending_review(p) has returned Ok, it has returned the
\* pending-review path of the pair, the file behind that path is the whole
\* snapshot of p, also when it replaced the snapshot of an earlier write, the
\* session directory holds no temporary file, and read_pending_review of the
\* path gives back p: a read that began after the write returned has
\* returned Ok(p).
C32_OverwriteRoundTrip ==
    \A w \in Writers :
        WriteSucceeded(w) =>
            LET path == JsonPath(WriterDir)
                p    == writer[w].review[1]
            IN  /\ writer[w].result = StoreOk(path)
                /\ FileAt(path) = <<File(to_string_pretty(p), TRUE)>>
                /\ fs_files[TempPath(path)] = 0
                /\ ReadResult(FileAt(path)[1].data) = StoreOk(p)
                /\ (ReadReturned /\ reader.since = Len(published)) =>
                      reader.result = StoreOk(p)

\* two writes in a row have succeeded, the second with another snapshot, and
\* a read made afterwards has returned
C32_Witness ==
    /\ writes = 2
    /\ WriteSucceeded("w1")
    /\ Len(published) >= 2
    /\ \E p \in WrittenReviews :
          /\ p # writer["w1"].review[1]
          /\ Holds(published[Len(published) - 1], p)
    /\ ReadReturned
    /\ reader.since = Len(published)
    /\ reader.result.kind = "Ok"

----------------------------------------------------------------------------
\* The posting gateway: post_review_to_github, one step per GitHub call

\* lines 48-52 and 80-84: the text with or without the attribution header
PostBody(include_header, text) ==
    IF include_header THEN <<"[AI Rally - Reviewer]", text>> ELSE <<text>>

\* `if let Some(sink) = event_sink { let _ = sink.send(..).await; }`
SinkSend(events, e) == IF post_sink THEN Append(events, e) ELSE events

FallsBackOnAnyFailure(ok, action) == ~ok

\* lines 56-57: result.is_err() && matches!(app_action_for_fallback, Approve)
FallsBack(ok, action) == ~ok /\ action = "Approve"

RetrySameAction(action) == action

\* line 70: the action of the second submit_review call
FallbackAction(action) == "Comment"

CommentErrorFatal(ok) == ~ok

\* lines 85-107: the Err of create_review_comment is logged, never returned
CommentErrorPropagates(ok) == FALSE

\* line 79 and line 112: the next inline comment, or Ok(()) after the last
CommentsOrDone(i) ==
    IF i > Len(post_review.comments) THEN "done" ELSE "comments"

ResultAt(pcNext) == IF pcNext = "done" THEN "Ok" ELSE NoPostResult

SummaryErrorIgnored(ok) == FALSE

\* lines 73 and 75: the `?` on the Result of the last submit_review call
SummaryErrorPropagates(ok) == ~ok

PostFrame == UNCHANGED <<orch_vars, sink_vars, store_vars, prompt_vars>>

\* line 39: `if options.post_summary`
PostStart ==
    /\ post_pc = "start"
    /\ LET pcNext == IF post_options.post_summary THEN "summary" ELSE CommentsOrDone(1)
       IN  /\ post_pc' = pcNext
           /\ post_result' = ResultAt(pcNext)
    /\ UNCHANGED <<post_review, post_options, post_sink, post_next, post_calls,
                   post_events, run_post_pc>>
    /\ PostFrame

\* lines 40-76 up to the second call: github::submit_review(.., app_action,
\* &summary_body).await has ended
SubmitSummary(ok) ==
    /\ post_pc = "summary"
    /\ LET action == post_review.action
           body   == PostBody(post_options.include_header, post_review.summary)
       IN  /\ post_calls' = Append(post_calls, SubmitReviewCall(action, body, ok))
           /\ IF FallsBack(ok, action)
              THEN /\ post_events' = SinkSend(post_events, FallbackLog)
                   /\ post_pc' = "fallback"
                   /\ post_result' = NoPostResult
              ELSE IF SummaryErrorPropagates(ok)
              THEN /\ post_events' = post_events
                   /\ post_pc' = "done"
                   /\ post_result' = "Err"
              ELSE /\ post_events' = post_events
                   /\ post_pc' = CommentsOrDone(1)
                   /\ post_result' = ResultAt(CommentsOrDone(1))
    /\ UNCHANGED <<post_review, post_options, post_sink, post_next, run_post_pc>>
    /\ PostFrame

\* lines 67-73: the second github::submit_review(..).await? has ended
SubmitFallback(ok) ==
    /\ post_pc = "fallback"
    /\ LET body == PostBody(post_options.include_header, post_review.summary)
       IN  post_calls' = Append(post_calls,
               SubmitReviewCall(FallbackAction(post_review.action), body, ok))
    /\ IF SummaryErrorPropagates(ok)
       THEN /\ post_pc' = "done"
            /\ post_result' = "Err"
       ELSE /\ post_pc' = CommentsOrDone(1)
            /\ post_result' = ResultAt(CommentsOrDone(1))
    /\ UNCHANGED <<post_review, post_options, post_sink, post_next, post_events,
                   run_post_pc>>
    /\ PostFrame

\* lines 79-110, one pass of the loop: github::create_review_comment(..).await
\* has ended
PostComment(ok) ==
    /\ post_pc = "comments"
    /\ LET comment == post_review.comments[post_next]
           body    == PostBody(post_options.include_header, comment.body)
       IN  /\ post_calls' = Append(post_calls, CreateReviewCommentCall(comment, body, ok))
           /\ IF CommentErrorPropagates(ok)
              THEN /\ post_events' = post_events
                   /\ post_next' = post_next
                   /\ post_pc' = "done"
                   /\ post_result' = "Err"
              ELSE /\ post_events' = IF ok THEN post_events
                                     ELSE SinkSend(post_events, CommentWarningLog(comment))
                   /\ post_next' = post_next + 1
                   /\ post_pc' = CommentsOrDone(post_next + 1)
                   /\ post_result' = ResultAt(CommentsOrDone(post_next + 1))
    /\ UNCHANGED <<post_review, post_options, post_sink, run_post_pc>>
    /\ PostFrame

\* post_review_to_github is called with any verdict, options and sink
PostInit ==
    /\ post_review \in PostedReviews
    /\ post_options \in PostOptions
    /\ post_sink \in BOOLEAN
    /\ post_pc = "start"
    /\ post_next = 1
    /\ post_calls = <<>>
    /\ post_events = <<>>
    /\ post_result = NoPostResult
    /\ run_post_pc = "idle"
    /\ max_iterations = 0
    /\ OrchestratorNew
    /\ SinkUnused
    /\ StoreUnused
    /\ PromptUnused

PostNext ==
    \/ PostStart
    \/ \E ok \in BOOLEAN : SubmitSummary(ok)
    \/ \E ok \in BOOLEAN : SubmitFallback(ok)
    \/ \E ok \in BOOLEAN : PostComment(ok)

PostSpec == PostInit /\ [][PostNext]_vars

----------------------------------------------------------------------------
\* The `or post` command: run_post (post.rs), one step per await or file
\* operation.  The path it is given is the pending-review file of WriterDir.

\* pending.review: the ReviewerOutput that is serialised under "review"
ReviewerOutputOf(v) ==
    IF v = "verdict A"
    THEN [action |-> "Approve", summary |-> "summary A",
          comments |-> <<CHOOSE c \in ReviewComments : c.line = 10>>]
    ELSE [action |-> "RequestChanges", summary |-> "summary A", comments |-> <<>>]

AfterPostRemoved(files) == [files EXCEPT ![JsonPath(WriterDir)] = 0]

\* lines 31-32: after the post run_post prints a line and returns; the paths
\* are left as they are
AfterPost(files) == files

RunPostFrame == UNCHANGED <<orch_vars, sink_vars, prompt_vars>>

\* lines 7-8: run_post(file_path) is called
RunPostCall ==
    /\ run_post_pc = "idle"
    /\ run_post_pc' = "read"
    /\ UNCHANGED <<post_review, post_options, post_sink, post_pc, post_next,
                   post_calls, post_events, post_result>>
    /\ UNCHANGED store_vars
    /\ RunPostFrame

\* line 9: read_pending_review(path) opens the file
RunPostOpen ==
    /\ run_post_pc = "read"
    /\ reader.result.kind = "None"
    /\ ReadOpen

\* line 9: read_pending_review(path) reads on, and at the end parses
RunPostChunk ==
    /\ run_post_pc = "read"
    /\ ReadChunk

\* lines 9-29: the `?` on what read_pending_review returned, the printed
\* lines, and the call post_review_to_github(.., None, &PostOptions::default()).
\* boundary: byte 8 of the head SHA is a character boundary, without which
\* the slice of line 18 panics.
RunPostRead(boundary) ==
    /\ run_post_pc = "read"
    /\ ReadReturned
    /\ IF reader.result.kind = "Err"
       THEN /\ run_post_pc' = "err"
            /\ UNCHANGED <<post_review, post_options, post_sink, post_pc>>
       ELSE IF ~boundary
       THEN /\ run_post_pc' = "panic"
            /\ UNCHANGED <<post_review, post_options, post_sink, post_pc>>
       ELSE /\ run_post_pc' = "post"
            /\ post_review' = ReviewerOutputOf(reader.result.value[1].review)
            /\ post_options' = [include_header |-> TRUE, post_summary |-> TRUE]
            /\ post_sink' = FALSE
            /\ post_pc' = "start"
    /\ UNCHANGED <<post_next, post_calls, post_events, post_result>>
    /\ UNCHANGED store_vars
    /\ RunPostFrame

\* lines 29-32: the `?` on what post_review_to_github returned, then Ok(())
RunPostReturn ==
    /\ run_post_pc = "post"
    /\ post_pc = "done"
    /\ run_post_pc' = IF post_result = "Err" THEN "err" ELSE "ok"
    /\ fs_files' = AfterPost(fs_files)
    /\ UNCHANGED <<fs_root, fs_dirs, fs_entry_err, fs_inodes, writer, reader,
                   found, published, writes>>
    /\ UNCHANGED <<post_review, post_options, post_sink, post_pc, post_next,
                   post_calls, post_events, post_result>>
    /\ RunPostFrame

\* the command is run on whatever an earlier program run has left behind
RunPostInit == FsInit({WriterDir})

RunPostNext ==
    \/ RunPostCall
    \/ RunPostOpen
    \/ RunPostChunk
    \/ \E boundary \in BOOLEAN : RunPostRead(boundary)
    \/ PostStart
    \/ \E ok \in BOOLEAN : SubmitSummary(ok)
    \/ \E ok \in BOOLEAN : SubmitFallback(ok)
    \/ \E ok \in BOOLEAN : PostComment(ok)
    \/ RunPostReturn

RunPostSpec == RunPostInit /\ [][RunPostNext]_vars

\* run_post has ended: returned, or panicked
RunPostEnded == run_post_pc \in {"ok", "err", "panic"}

\* what read_pending_review accepts: a readable file that is one whole
\* JSON object of version 1
Trusted(f) ==
    /\ Len(f) = 1
    /\ f[1].readable
    /\ Parses(f[1].data)
    /\ from_str(f[1].data)[1].version = 1

\* C34: no step of run_post or of post_review_to_github deletes, replaces or
\* writes a file, and when run_post has ended after a successful read,
\* whether the post succeeded or failed, the file it read is still behind
\* the path, unchanged.
C34_PostKeepsFile ==
    [][ /\ UNCHANGED <<fs_files, fs_inodes, fs_dirs>>
        /\ (RunPostEnded' /\ reader'.result.kind = "Ok")
              => FileAt(JsonPath(WriterDir))' = reader'.obs ]_vars

\* C34 witness: run_post has posted a file's verdict and returned Ok
C34_Witness ==
    /\ run_post_pc = "ok"
    /\ post_result = "Ok"
    /\ Len(post_calls) >= 2
    /\ Trusted(FileAt(JsonPath(WriterDir)))

\* C34, the other case: the post failed and run_post returned its error
C34_WitnessFailed ==
    /\ run_post_pc = "err"
    /\ post_result = "Err"
    /\ reader.result.kind = "Ok"
    /\ Trusted(FileAt(JsonPath(WriterDir)))

\* C35: when the file behind the path is missing, unreadable, unparseable
\* or of a version other than 1, the read fails, run_post ends with that
\* error, post_review_to_github is never entered and no GitHub call is made.
C35_UntrustedFileNotPosted ==
    ~Trusted(FileAt(JsonPath(WriterDir))) =>
        /\ post_calls = <<>>
        /\ post_pc = "idle"
        /\ run_post_pc \in {"idle", "read", "err"}
        /\ ReadReturned => /\ reader.result.kind = "Err"
                           /\ run_post_pc \in {"read", "err"}

\* C35 witness: run_post has returned the error of a file of version 2
C35_Witness ==
    /\ run_post_pc = "err"
    /\ reader.result = StoreErr("Unsupported pending review version")
    /\ post_calls = <<>>

\* C35, the other cases: no file, and a file that is not whole
C35_WitnessMissing ==
    /\ run_post_pc = "err"
    /\ FileAt(JsonPath(WriterDir)) = <<>>
    /\ reader.result = StoreErr("Failed to read pending review file")

C35_WitnessUnparseable ==
    /\ run_post_pc = "err"
    /\ reader.result = StoreErr("Failed to parse pending review file")
    /\ post_calls = <<>>

----------------------------------------------------------------------------
\* Claims about the posting gateway

IsSubmitCall(c) == c.api = "submit_review"

IsCommentCall(c) == c.api = "create_review_comment"

IsFailedCommentCall(c) == c.api = "create_review_comment" /\ ~c.ok

IsWarningLog(e) == e.text[1] = "Warning: Failed to post inline comment on"

\* the first GitHub call was the summary submission with one of these
\* actions, and it failed
SummaryFailedAs(actions) ==
    /\ Len(post_calls) >= 1
    /\ IsSubmitCall(post_calls[1])
    /\ post_calls[1].action \in actions
    /\ ~post_calls[1].ok

\* C22: when the summary submission as Approve has failed, the next GitHub
\* call is one submit_review with action Comment and the same body, and no
\* third submission follows; when that retry has succeeded the call does not
\* return an error, and by the time it returns every inline comment has been
\* attempted and the result is Ok.
C22_ApproveFallback ==
    SummaryFailedAs({"Approve"}) =>
        /\ Len(SelectSeq(post_calls, IsSubmitCall)) <= 2
        /\ \/ post_pc = "fallback" /\ Len(post_calls) = 1
           \/ /\ Len(post_calls) >= 2
              /\ IsSubmitCall(post_calls[2])
              /\ post_calls[2].action = "Comment"
              /\ post_calls[2].body = post_calls[1].body
        /\ (Len(post_calls) >= 2 /\ post_calls[2].ok) =>
              /\ post_result # "Err"
              /\ post_pc = "done" =>
                    /\ post_result = "Ok"
                    /\ Len(SelectSeq(post_calls, IsCommentCall)) = Len(post_review.comments)

\* the Approve submission failed, the retry as Comment succeeded, and the
\* call went through the inline comments and returned Ok
C22_Witness ==
    /\ SummaryFailedAs({"Approve"})
    /\ Len(post_calls) >= 3
    /\ post_calls[2].ok
    /\ post_pc = "done"
    /\ post_result = "Ok"

\* C23: when the summary submission as RequestChanges or Comment has failed,
\* the call has returned the error, and that submission is the only GitHub
\* call it made.
C23_NoFallbackOtherActions ==
    SummaryFailedAs({"RequestChanges", "Comment"}) =>
        /\ post_pc = "done"
        /\ post_result = "Err"
        /\ Len(post_calls) = 1

\* a RequestChanges summary of a verdict with inline comments has failed
C23_Witness ==
    /\ SummaryFailedAs({"RequestChanges"})
    /\ Len(post_review.comments) >= 1
    /\ post_result = "Err"

\* the summary step is over without an error: it was switched off, or the
\* last submission succeeded
SummaryPassed ==
    \/ ~post_options.post_summary /\ post_pc # "start"
    \/ \E i \in 1..Len(post_calls) : IsSubmitCall(post_calls[i]) /\ post_calls[i].ok

\* C24: the inline comments attempted so far are the first comments of the
\* verdict, each once and in the verdict's order, whichever of them failed;
\* with a sink there is one warning Log per failed comment, in order, and
\* without a sink none; and once the summary step has passed, the call
\* returns only after attempting every comment, and returns Ok.
C24_InlinePartialFailure ==
    LET attempts == SelectSeq(post_calls, IsCommentCall)
        failed   == SelectSeq(post_calls, IsFailedCommentCall)
        warnings == SelectSeq(post_events, IsWarningLog)
    IN  /\ Len(attempts) <= Len(post_review.comments)
        /\ \A i \in 1..Len(attempts) :
              /\ attempts[i].path = post_review.comments[i].path
              /\ attempts[i].line = post_review.comments[i].line
              /\ attempts[i].body[Len(attempts[i].body)] = post_review.comments[i].body
        /\ Len(warnings) = IF post_sink THEN Len(failed) ELSE 0
        /\ \A i \in 1..Len(warnings) :
              /\ warnings[i].text[2] = failed[i].path
              /\ warnings[i].line = failed[i].line
        /\ (SummaryPassed /\ post_pc = "done") =>
              /\ Len(attempts) = Len(post_review.comments)
              /\ post_result = "Ok"

\* the case of the specification: three inline comments, the second fails,
\* the third is posted, and the call returns Ok with one warning sent
C24_Witness ==
    LET attempts == SelectSeq(post_calls, IsCommentCall)
    IN  /\ post_pc = "done"
        /\ post_result = "Ok"
        /\ post_sink
        /\ Len(attempts) = 3
        /\ attempts[1].ok /\ ~attempts[2].ok /\ attempts[3].ok
        /\ Len(post_events) = 1

\* C31: with the summary option on, every inline comment submitted so far
\* comes after a summary submission that succeeded (the first one, or the
\* retry as Comment), and when the summary step has failed the call has
\* returned the error without submitting an inline comment; with the option
\* off, submit_review is never called and by the time the call returns every
\* inline comment has been attempted.
C31_SummaryBeforeComments ==
    LET attempts == SelectSeq(post_calls, IsCommentCall)
        submits  == SelectSeq(post_calls, IsSubmitCall)
    IN  IF post_options.post_summary
        THEN /\ \A i \in 1..Len(post_calls) :
                   IsCommentCall(post_calls[i]) =>
                       \E j \in 1..(i - 1) :
                           IsSubmitCall(post_calls[j]) /\ post_calls[j].ok
             /\ (Len(submits) >= 1 /\ ~submits[Len(submits)].ok
                    /\ post_pc # "fallback") =>
                   /\ post_pc = "done"
                   /\ post_result = "Err"
                   /\ Len(attempts) = 0
             /\ post_result = "Err" => Len(attempts) = 0
        ELSE /\ Len(submits) = 0
             /\ post_result # "Err"
             /\ post_pc = "done" =>
                   /\ post_result = "Ok"
                   /\ Len(attempts) = Len(post_review.comments)

\* a call with the summary switched off has attempted two inline comments
\* and returned
C31_WitnessSummaryOff ==
    /\ ~post_options.post_summary
    /\ post_pc = "done"
    /\ Len(post_review.comments) = 2
    /\ Len(post_calls) = 2

\* the Approve summary and its retry have both failed for a verdict with
\* inline comments
C31_Witness ==
    /\ post_options.post_summary
    /\ Len(post_review.comments) >= 1
    /\ Len(post_calls) = 2
    /\ ~post_calls[2].ok
    /\ post_result = "Err"

----------------------------------------------------------------------------
\* The prompt builders: one call of each on the same arguments

PromptFrame == UNCHANGED <<orch_vars, sink_vars, store_vars, post_vars>>

BuildReviewerPrompt ==
    /\ reviewer_prompt = <<>>
    /\ reviewer_prompt' =
          <<build_reviewer_prompt(prompt_args.context, prompt_args.iteration,
                                  prompt_args.custom_prompt)>>
    /\ UNCHANGED <<prompt_args, reviewee_prompt>>
    /\ PromptFrame

BuildRevieweePrompt ==
    /\ reviewee_prompt = <<>>
    /\ reviewee_prompt' =
          <<build_reviewee_prompt(prompt_args.context, prompt_args.review,
                                  prompt_args.iteration, prompt_args.custom_prompt)>>
    /\ UNCHANGED <<prompt_args, reviewer_prompt>>
    /\ PromptFrame

PromptInit ==
    /\ prompt_args \in PromptArgs
    /\ reviewer_prompt = <<>>
    /\ reviewee_prompt = <<>>
    /\ max_iterations = 0
    /\ OrchestratorNew
    /\ SinkUnused
    /\ StoreUnused
    /\ PostUnused

PromptNext ==
    \/ BuildReviewerPrompt
    \/ BuildRevieweePrompt

PromptSpec == PromptInit /\ [][PromptNext]_vars

----------------------------------------------------------------------------
\* Claims about the prompt builders

\* part occurs in text
Occurs(text, part) ==
    \E i \in 1..(Len(text) - Len(part) + 1) :
        SubSeq(text, i, i + Len(part) - 1) = part

\* text begins with part
StartsWith(text, part) ==
    Len(text) >= Len(part) /\ SubSeq(text, 1, Len(part)) = part

\* the first place at or after from where part occurs in text, or 0
FirstAt(text, part, from) ==
    LET at == {i \in from..(Len(text) - Len(part) + 1) :
                  SubSeq(text, i, i + Len(part) - 1) = part}
    IN  IF at = {} THEN 0 ELSE CHOOSE i \in at : \A j \in at : i <= j

\* the parts occur in text one after the other, in this order
RECURSIVE InOrder(_, _, _)
InOrder(text, parts, from) ==
    IF Len(parts) = 0 THEN TRUE
    ELSE LET i == FirstAt(text, parts[1], from)
         IN  i # 0 /\ InOrder(text, Tail(parts), i + 1)

\* an inline comment as path:line with its body
CommentRef(c) == <<c.path, ":", Display(c.line), ": ", c.body>>

\* the reviewer prompt names the repository, the PR number, the PR title and
\* the iteration number
ReviewerPromptComplete(t, a) ==
    /\ Occurs(t, a.context.repo)
    /\ Occurs(t, <<"PR #", Display(a.context.pr_number)>>)
    /\ Occurs(t, a.context.pr_title)
    /\ Occurs(t, <<"iteration ", Display(a.iteration)>>)

\* the reviewee prompt holds every inline comment in verdict order and every
\* blocking issue
RevieweePromptComplete(t, a) ==
    /\ InOrder(t, [i \in 1..Len(a.review.comments) |->
                      CommentRef(a.review.comments[i])], 1)
    /\ \A i \in 1..Len(a.review.blocking_issues) :
          Occurs(t, <<a.review.blocking_issues[i]>>)

\* C26 as stated: the reviewer prompt contains the repository, the PR number,
\* the PR title and the iteration number; the reviewee prompt contains every
\* inline comment as path:line with its body, in verdict order, and every
\* blocking issue; and a prompt contains a Custom Instructions section exactly
\* if a custom prompt is supplied, and then the section holds the custom text.
C26_CustomSectionIffSupplied ==
    /\ reviewer_prompt # <<>> =>
          /\ ReviewerPromptComplete(reviewer_prompt[1], prompt_args)
          /\ Occurs(reviewer_prompt[1], CustomHeading)
                <=> prompt_args.custom_prompt # <<>>
    /\ reviewee_prompt # <<>> =>
          /\ RevieweePromptComplete(reviewee_prompt[1], prompt_args)
          /\ Occurs(reviewee_prompt[1], CustomHeading)
                <=> prompt_args.custom_prompt # <<>>
    /\ \A i \in 1..Len(prompt_args.custom_prompt) :
          /\ reviewer_prompt # <<>> =>
                Occurs(reviewer_prompt[1],
                         CustomHeading \o prompt_args.custom_prompt[i])
          /\ reviewee_prompt # <<>> =>
                Occurs(reviewee_prompt[1],
                         CustomHeading \o prompt_args.custom_prompt[i])

\* C26 as amended: the reviewer prompt contains the repository, the PR
\* number, the PR title and the iteration number; the reviewee prompt contains
\* every inline comment as path:line with its body, in verdict order, and
\* every blocking issue; and a prompt begins with a Custom Instructions section
\* exactly if a custom prompt is supplied, and then the section holds the
\* custom text.
C26_PromptsComplete ==
    /\ reviewer_prompt # <<>> =>
          /\ ReviewerPromptComplete(reviewer_prompt[1], prompt_args)
          /\ StartsWith(reviewer_prompt[1], CustomHeading)
                <=> prompt_args.custom_prompt # <<>>
    /\ reviewee_prompt # <<>> =>
          /\ RevieweePromptComplete(reviewee_prompt[1], prompt_args)
          /\ StartsWith(reviewee_prompt[1], CustomHeading)
                <=> prompt_args.custom_prompt # <<>>
    /\ \A i \in 1..Len(prompt_args.custom_prompt) :
          /\ reviewer_prompt # <<>> =>
                StartsWith(reviewer_prompt[1],
                           CustomHeading \o prompt_args.custom_prompt[i] \o <<"\n\n">>)
          /\ reviewee_prompt # <<>> =>
                StartsWith(reviewee_prompt[1],
                           CustomHeading \o prompt_args.custom_prompt[i] \o <<"\n\n">>)

\* both prompts were built without a custom prompt from a PR description that
\* holds a Custom Instructions heading and a verdict with two different
\* inline comments and two blocking issues
C26_Witness ==
    /\ reviewer_prompt # <<>>
    /\ reviewee_prompt # <<>>
    /\ prompt_args.custom_prompt = <<>>
    /\ prompt_args.context.pr_body # <<>>
    /\ Occurs(prompt_args.context.pr_body[1], CustomHeading)
    /\ Len(prompt_args.review.comments) >= 2
    /\ prompt_args.review.comments[1] # prompt_args.review.comments[2]
    /\ Len(prompt_args.review.blocking_issues) = 2

----------------------------------------------------------------------------
\* Properties of Orchestrator::run: prompts, fallthrough, history, checkpoints

\* C27: within a run, the reviewer call of iteration 1 receives the initial
\* review prompt, and the reviewer call of an iteration n > 1 receives a
\* re-review prompt built from the summary and the modified-file list of the
\* output the reviewee returned in iteration n - 1.
C27_RereviewPromptSource ==
    \A i \in Positions :
        IsCallOf(trace[i], "run_reviewer") =>
            LET n == trace[i].num
            IN  /\ n = 1 => trace[i].text = <<"build_reviewer_prompt">>
                /\ n > 1 =>
                      /\ trace[i].text[1] = "build_rereview_prompt"
                      /\ \A j \in Positions :
                            (/\ j < i
                             /\ Returned(trace[j], "run_reviewee")
                             /\ trace[j].num = n - 1)
                            => trace[i].text = <<"build_rereview_prompt">> \o
                                               changes_summary(<<trace[j].out[1]>>)

\* C28: whenever the reviewee call of iteration n has come back with
\* NeedsClarification and no question, or NeedsPermission and no permission
\* request, and the Fix history entry was written, the next thing run did after
\* FixCompleted was to start the pass of iteration n + 1, or, with the budget
\* spent, to return MaxIterationsReached with the session still (n, RevieweeFix)
\* in memory and on disk: no ClarificationNeeded, PermissionNeeded or
\* StateChanged event, no state change and no session write came in between.
C28_SilentFallthrough ==
    \A i \in Positions :
        (Returned(trace[i], "run_reviewee") /\ Malformed(trace[i].out[1])) =>
            LET n == trace[i].num
            IN  \/ /\ Len(trace) = i + 1
                   /\ FailedOnWriteAfter(i)
                \/ /\ Len(trace) >= i + 3
                   /\ trace[i + 1] = HistoryWrite(n, "Fix", TRUE)
                   /\ trace[i + 2] = FixCompleted(trace[i].out[1])
                   /\ IF n < max_iterations
                      THEN trace[i + 3] = IterationStarted(n + 1)
                      ELSE /\ Len(trace) = i + 3
                           /\ trace[i + 3] = Log(<<"Max iterations reached">>,
                                                 max_iterations)
                           /\ pc = "idle"
                           /\ result = [kind |-> "MaxIterationsReached",
                                        iteration |-> n, text |-> <<>>]
                           /\ session = [iteration |-> n, state |-> "RevieweeFix"]
                           /\ Persisted(n, "RevieweeFix")

\* a run in which the reviewee left out the question in one iteration and
\* the permission request in the next, and which ended with the budget spent
C28_Witness ==
    /\ pc = "idle"
    /\ result.kind = "MaxIterationsReached"
    /\ \E i, j \in Positions :
          /\ i < j
          /\ Returned(trace[i], "run_reviewee")
          /\ trace[i].out[1].status = "NeedsClarification"
          /\ trace[i].out[1].question = <<>>
          /\ trace[i + 3] = IterationStarted(trace[i].num + 1)
          /\ Returned(trace[j], "run_reviewee")
          /\ trace[j].out[1].status = "NeedsPermission"
          /\ trace[j].out[1].permission_request = <<>>
          /\ j + 3 = Len(trace)

\* the agent call in flight came back with an output in this step
AgentReturnedNow(name) ==
    /\ pc = (IF name = "run_reviewer" THEN "reviewer" ELSE "reviewee")
    /\ Len(trace') > Len(trace)
    /\ Returned(trace'[Len(trace) + 1], name)
    /\ trace'[Len(trace) + 1].num = session.iteration

\* run returned in this step with the error of a failed history write
HistoryWriteFailedNow ==
    /\ pc' = "idle"
    /\ result'.kind = "Err"
    /\ trace'[Len(trace')].kind = "write"
    /\ trace'[Len(trace')].name = "history"
    /\ ~trace'[Len(trace')].ok

\* entry a is written before entry b: an earlier iteration, or the Review of
\* the iteration whose Fix b is
WrittenBefore(a, b) ==
    \/ a.iteration < b.iteration
    \/ a.iteration = b.iteration /\ a.type = "Review" /\ b.type = "Fix"

\* C29: in every step of any sequence of run and continue_with_* calls on one
\* orchestrator, the history on disk stays as it is or gains one entry at its
\* end; it gains the Review entry of iteration n exactly when the reviewer
\* call of iteration n returned an output in the step, and the Fix entry of n
\* exactly when the reviewee call of n did, unless the history write failed
\* and run returned its error; the new entry comes after every entry on disk
\* (a later iteration, or the Fix after the Review of the same iteration), so
\* that no iteration has two Review or two Fix entries.
C29_HistoryOrdered ==
    [][ LET n == session.iteration
            review == [iteration |-> n, type |-> "Review"]
            fix == [iteration |-> n, type |-> "Fix"]
        IN  /\ \/ disk_history' = disk_history
               \/ disk_history' = Append(disk_history, review)
               \/ disk_history' = Append(disk_history, fix)
            /\ AgentReturnedNow("run_reviewer") <=>
                  \/ disk_history' = Append(disk_history, review)
                  \/ disk_history' = disk_history /\ pc = "reviewer"
                        /\ HistoryWriteFailedNow
            /\ AgentReturnedNow("run_reviewee") <=>
                  \/ disk_history' = Append(disk_history, fix)
                  \/ disk_history' = disk_history /\ pc = "reviewee"
                        /\ HistoryWriteFailedNow
            /\ \A i \in DOMAIN disk_history :
                  disk_history' # disk_history =>
                      WrittenBefore(disk_history[i],
                                    disk_history'[Len(disk_history')]) ]_vars

\* a second run call has written the Review entry of iteration 2 after the
\* first one wrote both entries of iteration 1
C29_Witness ==
    /\ runs = 2
    /\ op = "run"
    /\ Len(disk_history) >= 3
    /\ disk_history[1] = [iteration |-> 1, type |-> "Review"]
    /\ disk_history[2] = [iteration |-> 1, type |-> "Fix"]
    /\ disk_history[3].type = "Review"
    /\ ~HistoryWriteTried(1, "Fix")

\* C30: run calls the reviewer for iteration n right after a successful
\* session write of (n, ReviewerReviewing), and the reviewee right after a
\* successful session write of (n, RevieweeFix) that follows the successful
\* write of the Review history entry of n; while either call is in flight the
\* session file holds that snapshot, and during the reviewee call the history
\* on disk holds the Review entry of n.
C30_CheckpointBeforeCall ==
    /\ \A i \in Positions :
          IsCallOf(trace[i], "run_reviewer") =>
              /\ i > 1
              /\ trace[i - 1] =
                    SessionWrite([iteration |-> trace[i].num,
                                  state |-> "ReviewerReviewing"], TRUE)
    /\ \A i \in Positions :
          IsCallOf(trace[i], "run_reviewee") =>
              /\ i > 1
              /\ trace[i - 1] =
                    SessionWrite([iteration |-> trace[i].num,
                                  state |-> "RevieweeFix"], TRUE)
              /\ \E k \in 1..(i - 1) :
                    trace[k] = HistoryWrite(trace[i].num, "Review", TRUE)
    /\ pc = "reviewer" => Persisted(session.iteration, "ReviewerReviewing")
    /\ pc = "reviewee" =>
          /\ Persisted(session.iteration, "RevieweeFix")
          /\ HistoryHas(session.iteration, "Review")

\* the reviewee call of a second iteration is in flight
C30_Witness ==
    /\ pc = "reviewee"
    /\ session.iteration = 2
    /\ CallsOf("run_reviewer", 2) # {}
    /\ CallsOf("run_reviewee", 2) # {}
    /\ Persisted(2, "RevieweeFix")

----------------------------------------------------------------------------
\* Properties of the orchestrator over its whole life

\* C36: whatever run and continue_with_* calls are made and however they
\* end, the run_reviewer calls made since construction number at most
\* max_iterations, and the run_reviewee calls at most the run_reviewer calls.
C36_AgentCallBudget ==
    /\ agent_runs["run_reviewer"] <= max_iterations
    /\ agent_runs["run_reviewee"] <= agent_runs["run_reviewer"]

\* C36 witness: a second run, after a pause and a continue call, has used up
\* the budget
C36_Witness ==
    /\ runs >= 2
    /\ continues >= 1
    /\ max_iterations >= 2
    /\ agent_runs["run_reviewer"] = max_iterations
    /\ agent_runs["run_reviewee"] >= 1

\* C37: when run has returned Approved and the state is Completed, a run
\* call made next leaves the state Completed and calls no agent.
C37_CompletedAbsorbing ==
    [][ (RunCalled /\ result.kind = "Approved" /\ session.state = "Completed")
           => /\ session'.state = "Completed"
              /\ agent_runs' = agent_runs ]_vars

\* the step is a call of one of the continue_with_* operations
ContinueCalledAs(name) == ContinueCalled /\ op' = name

\* C38: the state becomes RevieweeFix only from ReviewerReviewing inside
\* run, from WaitingForClarification through continue_with_clarification,
\* or from WaitingForPermission through continue_with_permission; a continue
\* call made in any other state leaves the state as it is.
C38_ResumptionOnlyFromPause ==
    [][ /\ (session'.state = "RevieweeFix" /\ session.state # "RevieweeFix")
           => \/ session.state = "ReviewerReviewing" /\ op' = "run" /\ ~RunCalled
              \/ /\ session.state = "WaitingForClarification"
                 /\ ContinueCalledAs("continue_with_clarification")
              \/ /\ session.state = "WaitingForPermission"
                 /\ ContinueCalledAs("continue_with_permission")
        /\ (ContinueCalled /\ session.state \notin {"WaitingForClarification",
                                                     "WaitingForPermission"})
           => session'.state = session.state ]_vars

\* the kinds of RallyResult
RallyResultKinds == {"Approved", "MaxIterationsReached", "Aborted", "Error"}

\* run has returned Ok(RallyResult) and nothing has been called since
RunReturnedResult == pc = "idle" /\ op = "run" /\ result.kind \in RallyResultKinds

\* C39: when no session or history write has failed since construction and
\* run returns a RallyResult with at least one loop pass executed (by this
\* run or an earlier one), the snapshot on disk holds the iteration and the
\* state of the in-memory session.
C39_MemoryAndDiskAgree ==
    (RunReturnedResult /\ session.iteration >= 1 /\ ~write_failed)
        => disk_session = SnapshotOf(session)

\* C39 witness: a second run returns MaxIterationsReached after a pause and
\* a continue call, with every write successful
C39_Witness ==
    /\ RunReturnedResult
    /\ result.kind = "MaxIterationsReached"
    /\ ~write_failed
    /\ runs >= 2
    /\ continues >= 1
    /\ session.iteration >= 1
    /\ disk_session = SnapshotOf(session)

\* run returns MaxIterationsReached in this step
ExhaustedNow ==
    /\ result'.kind = "MaxIterationsReached"
    /\ pc' = "idle"
    /\ RunCalled \/ pc # "idle"

\* what run has done last before it evaluates the loop guard: the event at
\* its start, or the end of the handling of a reviewee output
BeforeGuard(e) ==
    \/ e = StateChanged("Initializing")
    \/ e.kind = "event" /\ e.name = "FixCompleted"
    \/ e.kind = "event" /\ e.name = "Log" /\ e.text[1] = "Fix completed: "

\* C40: in a step in which run returns MaxIterationsReached, the iteration
\* equals max_iterations and is the one returned; after the last thing done
\* before the loop guard run has added the Log event and nothing else; the
\* session in memory and the snapshot on disk are as before the step, the
\* step calls no agent, and the only write it can hold is the history write
\* of the reviewee output that was being handled.  When the step is the
\* return of a reviewee call, the snapshot on disk is (max_iterations,
\* RevieweeFix).
C40_ExhaustionKeepsState ==
    [][ ExhaustedNow =>
          LET new == NewEntries
              k   == Len(new)
          IN  /\ session.iteration = max_iterations
              /\ result' = [kind |-> "MaxIterationsReached",
                            iteration |-> session.iteration, text |-> <<>>]
              /\ k >= 2
              /\ new[k] = Log(<<"Max iterations reached">>, max_iterations)
              /\ BeforeGuard(new[k - 1])
              /\ session' = session
              /\ disk_session' = disk_session
              /\ agent_runs' = agent_runs
              /\ \A i \in 1..k :
                    /\ new[i].kind # "call"
                    /\ new[i].kind = "write" =>
                          /\ new[i] = HistoryWrite(session.iteration, "Fix", TRUE)
                          /\ i < k - 1
              /\ pc = "reviewee" =>
                    /\ session'.state = "RevieweeFix"
                    /\ disk_session' = SnapshotOf(session') ]_vars

\* C40 witness: a run has used up a budget of two with Completed fixes
C40_Witness ==
    /\ pc = "idle"
    /\ op = "run"
    /\ result.kind = "MaxIterationsReached"
    /\ max_iterations = 2
    /\ session.state = "RevieweeFix"
    /\ disk_session = SnapshotOf(session)
    /\ Len(trace) >= 2
    /\ trace[Len(trace) - 1].name = "Log"
    /\ trace[Len(trace) - 1].text[1] = "Fix completed: "

\* C40, the other case: run is called with the budget already spent
C40_WitnessCalledExhausted ==
    /\ pc = "idle"
    /\ op = "run"
    /\ runs = 2
    /\ result.kind = "MaxIterationsReached"
    /\ session.iteration >= 1
    /\ Len(trace) = 2

====
